---- MODULE Spec2Model ----
(***************************************************************************)
(* Model of the query-translation and authenticated-execution pipeline of  *)
(* aws-opensearch-navigator: the service classifier and the proxy          *)
(* (server), the query compiler and the execution gateway                  *)
(* (OpenSearchService).                                                    *)
(*                                                                         *)
(* Strings are sequences of atoms (words and punctuation marks), so that   *)
(* substring search, suffix tests, trimming and concatenation are computed *)
(* rather than assumed.                                                    *)
(***************************************************************************)
EXTENDS Integers, Sequences, FiniteSets, TLC

VARIABLES
    url,        \* classifier: the URL handed to the proxy, as [host, path]
    service,    \* classifier: the service name derived from it, or "none"
    filters,    \* compiler: the SearchFilters handed to buildDsl
    dsl,        \* compiler: the compiled query, or NoDsl before buildDsl ran
    dslConfig,  \* compiler: the config buildDsl is given, as far as it reads it
    dslVersion, \* compiler: the version of buildDsl that compiled dsl
    variant,    \* gateway: which client and which proxy of the repository run
    cfg,        \* gateway: the OpenSearchConfig of the call
    op,         \* gateway: the service method called (search, getIndices, getMapping)
    pc,         \* gateway: where the call stands
    payload,    \* gateway: the body the client posts to /api/proxy
    nodeIdx,    \* gateway: the node the failover loop is at (1-based), 0 outside it
    log,        \* gateway: what the call did so far, in order
    proxyReply, \* gateway: the reply of /api/proxy on its way to the client
    lastError,  \* gateway: lastError of fetchWithFailover
    execOutcome,\* gateway: what executeRequest / fetchWithFailover returned or threw
    result,     \* gateway: what the service method returned or threw
    formData,   \* settings: the form of the settings dialog (auth mode, profile, keys)
    nodesInput, \* settings: the text of the endpoint input
    discPc,     \* discovery: where handleDiscoverClusters stands
    awsOutcome, \* discovery: what the credential store and the AWS API did
    discReply,  \* discovery: the reply of /api/aws-discovery on its way to the client
    discovering,            \* discovery: the dialog's discovering flag
    discoveryError,         \* discovery: the dialog's error text, NoText when null
    discoveredCollections,  \* discovery: the dialog's collection list
    profStore,  \* profiles: the server version and the two files of the credential store
    profReply,  \* profiles: the last reply of GET /api/aws-profiles
    profServed, \* profiles: how many listings the server has answered
    schema,     \* flattener: the properties object handed to flattenMapping
    fields,     \* flattener: the field definitions it returned
    appVersion, \* App: "paged" (setData(response)) or "scroll" (infinite scroll)
    appConfig,  \* App: config, as far as the effects read it (useDemoMode, nodes)
    gen,        \* App: how many times filters or config were replaced
    appFrom,    \* App: filters.from
    criteria,   \* App: how many times the query, the field filters, the geo filter or
                \* the config were replaced (what decides which documents match)
    loadingIndices, \* App: loadingIndices
    indicesError,   \* App: indicesError is not null
    indexLoads, \* App: getIndices calls in flight
    indices,    \* App: indices, the names of the listed indices
    loadEnded,  \* App: how the getIndices call that settled last ended
    timers,     \* App: the armed debounce timers, each with the fetchData it calls
    issued,     \* App: the searches issued so far, in order
    inflight,   \* App: the ids of the searches in flight
    completed,  \* App: the searches that ended, in order of completion
    appData,    \* App: data
    prevData,   \* App: data before the last setData of a response
    lastWrite,  \* App: the search whose response setData stored last, 0 for none
    appError,   \* App: error is not null
    loading,    \* App: loading
    replaced    \* App: the generations replaced while their timer was armed

classifyVars == <<url, service>>
dslVars == <<filters, dsl, dslConfig, dslVersion>>
gwVars == <<variant, cfg, op, pc, payload, nodeIdx, log, proxyReply, lastError,
            execOutcome, result>>

discVars == <<formData, nodesInput, discPc, awsOutcome, discReply, discovering,
              discoveryError, discoveredCollections>>
profVars == <<profStore, profReply, profServed>>
flatVars == <<schema, fields>>
appVars == <<appVersion, appConfig, gen, appFrom, criteria, loadingIndices,
             indicesError,
             indexLoads, indices, loadEnded, timers, issued, inflight, completed,
             appData, prevData,
             lastWrite, appError, loading, replaced>>
uiVars == <<discVars, profVars, flatVars, appVars>>

vars == <<url, service, filters, dsl, variant, cfg, op, pc, payload, nodeIdx, log,
          proxyReply, lastError, execOutcome, result, uiVars>>

----------------------------------------------------------------------------
(* Bounds                                                                  *)

MaxHostPrefix == 1
MaxPathSegs == 2
MaxFilters == 2
MaxNodes == 2
MaxValueLen == 3
MaxCollections == 2
MaxSections == 2
MaxListings == 2
MaxEntries == 4
MaxChanges == 2
MaxSearches == 2

----------------------------------------------------------------------------
(* Strings                                                                 *)

SeqsUpTo(S, n) == UNION {[1..k -> S] : k \in 0..n}

RECURSIVE Flatten(_)
Flatten(ss) == IF ss = <<>> THEN <<>> ELSE Head(ss) \o Flatten(Tail(ss))

\* String.prototype.includes
Includes(s, sub) ==
    \E i \in 0..(Len(s) - Len(sub)) : SubSeq(s, i + 1, i + Len(sub)) = sub

\* String.prototype.endsWith
EndsWith(s, sub) ==
    /\ Len(sub) <= Len(s)
    /\ SubSeq(s, Len(s) - Len(sub) + 1, Len(s)) = sub

\* String.prototype.startsWith
StartsWith(s, sub) ==
    /\ Len(sub) <= Len(s)
    /\ SubSeq(s, 1, Len(sub)) = sub

----------------------------------------------------------------------------
(* Service classifier                                                      *)

AossSuffix == <<"aoss", ".", "amazonaws", ".", "com">>

HostPrefixes ==
    { <<"search-x", ".">>,
      <<"aoss", ".", "amazonaws", ".", "com", ".">> }

HostDomains ==
    { <<"aoss", ".", "amazonaws", ".", "com">>,
      <<"es", ".", "amazonaws", ".", "com">>,
      <<"evil", ".", "com">> }

PathSegs ==
    { <<"/", "idx">>,
      <<"/", "_search">>,
      <<"/", "aoss", ".", "amazonaws", ".", "com">>,
      <<"?", "q", "=", "aoss", ".", "amazonaws", ".", "com">> }

Hosts == { Flatten(p) \o d : p \in SeqsUpTo(HostPrefixes, MaxHostPrefix), d \in HostDomains }

Paths == { Flatten(p) : p \in SeqsUpTo(PathSegs, MaxPathSegs) }

NoUrl == [host |-> <<>>, path |-> <<>>]

\* the URL as the one string the proxy receives in body.url
UrlString(u) == <<"https://">> \o u.host \o u.path

\* const service = url.includes('aoss.amazonaws.com') ? 'aoss' : 'es'
Classify(u) == IF Includes(u, AossSuffix) THEN "aoss" ELSE "es"

----------------------------------------------------------------------------
(* Numbers and literals                                                    *)

WhiteSpace == {" "}
Digits == {"0", "1", "2", "3", "4", "5", "6", "7", "8", "9"}

DigitVal(a) ==
    CASE a = "0" -> 0 [] a = "1" -> 1 [] a = "2" -> 2 [] a = "3" -> 3
      [] a = "4" -> 4 [] a = "5" -> 5 [] a = "6" -> 6 [] a = "7" -> 7
      [] a = "8" -> 8 [] a = "9" -> 9

DigitAtom(d) == <<"0", "1", "2", "3", "4", "5", "6", "7", "8", "9">>[d + 1]

\* String.prototype.trim
RECURSIVE TrimStart(_)
TrimStart(s) ==
    IF s # <<>> /\ Head(s) \in WhiteSpace THEN TrimStart(Tail(s)) ELSE s

RECURSIVE TrimEnd(_)
TrimEnd(s) ==
    IF s # <<>> /\ s[Len(s)] \in WhiteSpace
    THEN TrimEnd(SubSeq(s, 1, Len(s) - 1)) ELSE s

Trim(s) == TrimEnd(TrimStart(s))

RECURSIVE DecimalValue(_)
DecimalValue(s) ==
    IF s = <<>> THEN 0
    ELSE 10 * DecimalValue(SubSeq(s, 1, Len(s) - 1)) + DigitVal(s[Len(s)])

\* Number(string), for strings of digits, blanks and words: surrounding
\* blanks are dropped, the empty string is 0, a digit string is its decimal
\* value and anything else is NaN.
IsNaNString(s) == \E i \in 1..Len(Trim(s)) : Trim(s)[i] \notin Digits
NumberOf(s) == DecimalValue(Trim(s))

\* String(number), for the naturals
RECURSIVE NumberToString(_)
NumberToString(n) ==
    IF n < 10 THEN <<DigitAtom(n)>>
    ELSE NumberToString(n \div 10) \o <<DigitAtom(n % 10)>>

NumLit(n) == [type |-> "number", num |-> n, str |-> <<>>]
StrLit(s) == [type |-> "string", num |-> 0, str |-> s]

\* `${val}` in a template string
LitToString(v) == IF v.type = "number" THEN NumberToString(v.num) ELSE v.str

----------------------------------------------------------------------------
(* Query compiler: OpenSearchService.buildDsl                              *)

Operators == {"eq", "neq", "gt", "lt", "gte", "lte", "contains", "exists"}
RangeOps == {"gt", "gte", "lt", "lte"}

MultiMatchFields == <<"name^2", "description", "metadata.*", "*">>

\* the text clause pushed to must
TextClauses_NoMatchAll(f) ==
    IF Trim(f.query) # <<>>
    THEN << [kind |-> "multi_match", query |-> f.query, fields |-> MultiMatchFields] >>
    ELSE << >>
TextClauses(f) ==
    IF Trim(f.query) # <<>>
    THEN << [kind |-> "multi_match", query |-> f.query, fields |-> MultiMatchFields] >>
    ELSE << [kind |-> "match_all"] >>

\* the geo clause pushed to filter
GeoClauses_NoUnit(f) ==
    IF f.geo.enabled
    THEN << [kind |-> "geo_distance",
             distance |-> NumberToString(f.geo.radius),
             field |-> IF f.geo.geoField # "" THEN f.geo.geoField ELSE "location",
             lat |-> f.geo.latitude,
             lon |-> f.geo.longitude] >>
    ELSE << >>
GeoClauses(f) ==
    IF f.geo.enabled
    THEN << [kind |-> "geo_distance",
             distance |-> NumberToString(f.geo.radius) \o <<f.geo.unit>>,
             field |-> IF f.geo.geoField # "" THEN f.geo.geoField ELSE "location",
             lat |-> f.geo.latitude,
             lon |-> f.geo.longitude] >>
    ELSE << >>

\* the digits a string starts with
RECURSIVE DigitPrefix(_)
DigitPrefix(s) ==
    IF s # <<>> /\ Head(s) \in Digits THEN <<Head(s)>> \o DigitPrefix(Tail(s)) ELSE <<>>

\* const val = !isNaN(Number(f.value)) && f.value.trim() !== '' ? Number(f.value) : f.value
Coerce_NumericPrefix(value) ==
    IF DigitPrefix(TrimStart(value)) # <<>>
    THEN NumLit(DecimalValue(DigitPrefix(TrimStart(value))))
    ELSE StrLit(value)
Coerce(value) ==
    IF ~IsNaNString(value) /\ Trim(value) # <<>>
    THEN NumLit(NumberOf(value))
    ELSE StrLit(value)

\* the bucket and the clause one field filter contributes (switch on f.operator)
FieldClause_TermInFilter(ff) ==
    LET val == Coerce(ff.value) IN
    CASE ff.operator = "eq" ->
            [bucket |-> "filter",
             clause |-> [kind |-> "term", field |-> ff.field, val |-> val]]
      [] ff.operator = "neq" ->
            [bucket |-> "must_not",
             clause |-> [kind |-> "term", field |-> ff.field, val |-> val]]
      [] ff.operator = "contains" ->
            [bucket |-> "must",
             clause |-> [kind |-> "match", field |-> ff.field, val |-> val]]
      [] ff.operator \in RangeOps ->
            [bucket |-> "filter",
             clause |-> [kind |-> "range", field |-> ff.field,
                         op |-> ff.operator, val |-> val]]
      [] ff.operator = "exists" ->
            [bucket |-> "filter",
             clause |-> [kind |-> "exists", field |-> ff.field]]
      [] OTHER -> [bucket |-> "none", clause |-> [kind |-> "none"]]
FieldClause(ff) ==
    LET val == Coerce(ff.value) IN
    CASE ff.operator = "eq" ->
            [bucket |-> "must",
             clause |-> [kind |-> "match_phrase", field |-> ff.field, val |-> val]]
      [] ff.operator = "neq" ->
            [bucket |-> "must_not",
             clause |-> [kind |-> "match_phrase", field |-> ff.field, val |-> val]]
      [] ff.operator = "contains" ->
            [bucket |-> "must",
             clause |-> [kind |-> "query_string", default_field |-> ff.field,
                         query |-> <<"*">> \o LitToString(val) \o <<"*">>]]
      [] ff.operator \in RangeOps ->
            [bucket |-> "filter",
             clause |-> [kind |-> "range", field |-> ff.field,
                         op |-> ff.operator, val |-> val]]
      [] ff.operator = "exists" ->
            [bucket |-> "filter",
             clause |-> [kind |-> "exists", field |-> ff.field]]
      [] OTHER -> [bucket |-> "none", clause |-> [kind |-> "none"]]

\* filters.fieldFilters.forEach(...): the clauses pushed to one bucket, in order
RECURSIVE BucketClauses_Unshift(_, _)
BucketClauses_Unshift(ffs, bucket) ==
    IF ffs = <<>> THEN <<>>
    ELSE LET fc == FieldClause(Head(ffs)) IN
         BucketClauses_Unshift(Tail(ffs), bucket)
             \o (IF fc.bucket = bucket THEN <<fc.clause>> ELSE <<>>)
RECURSIVE BucketClauses(_, _)
BucketClauses(ffs, bucket) ==
    IF ffs = <<>> THEN <<>>
    ELSE LET fc == FieldClause(Head(ffs)) IN
         (IF fc.bucket = bucket THEN <<fc.clause>> ELSE <<>>)
             \o BucketClauses(Tail(ffs), bucket)

SortSpec == << [key |-> "_score", order |-> "desc"], [key |-> "_doc", order |-> "desc"] >>

buildDsl_ClampOffset(f) ==
    [from |-> IF f.from + f.size > 10000 THEN 10000 - f.size ELSE f.from,
     size |-> f.size,
     must |-> TextClauses(f) \o BucketClauses(f.fieldFilters, "must"),
     filter |-> GeoClauses(f) \o BucketClauses(f.fieldFilters, "filter"),
     must_not |-> BucketClauses(f.fieldFilters, "must_not"),
     sort |-> SortSpec]
buildDsl(f) ==
    [from |-> f.from,
     size |-> f.size,
     must |-> TextClauses(f) \o BucketClauses(f.fieldFilters, "must"),
     filter |-> GeoClauses(f) \o BucketClauses(f.fieldFilters, "filter"),
     must_not |-> BucketClauses(f.fieldFilters, "must_not"),
     sort |-> SortSpec]

NoDsl == [from |-> 0, size |-> 0, must |-> <<>>, filter |-> <<>>,
          must_not |-> <<>>, sort |-> <<>>]

\* the filter states the compiler is applied to
Queries == { <<>>, <<" ">>, <<"error">> }
Fields == {"status"}
Values == { <<"ERROR">>, <<"4", "2">> }
Units == {"km", "mi"}
GeoFields == {"", "geo"}

\* config.geoField
DslConfigs == [geoField : GeoFields]
DslIdle == dslConfig = [geoField |-> ""] /\ dslVersion = "none"

Offsets == {0, 20}
PageSize == 20

GeoOff == [enabled |-> FALSE, latitude |-> 34, longitude |-> -118, radius |-> 50,
           unit |-> "km", geoField |-> "location"]
GeoStates ==
    {GeoOff} \cup
    { [GeoOff EXCEPT !.enabled = TRUE, !.unit = u, !.geoField = g] :
          u \in Units, g \in GeoFields }

FieldFilters == [field : Fields, operator : Operators, value : Values]

FilterStates ==
    [query : Queries, geo : GeoStates,
     fieldFilters : SeqsUpTo(FieldFilters, MaxFilters),
     from : Offsets, size : {PageSize}]

\* the values of a field filter: digits, blanks and words, up to MaxValueLen atoms
ValueAtoms == {"4", "2", " ", "abc"}
CoerceValues == SeqsUpTo(ValueAtoms, MaxValueLen)
CoerceStates ==
    [query : {<<>>}, geo : {GeoOff},
     fieldFilters : { <<ff>> : ff \in [field : Fields, operator : Operators,
                                       value : CoerceValues] },
     from : {0}, size : {PageSize}]

\* filter states over shallow and deep pages of several sizes
PageOffsets == {0, 20, 9980, 10000}
PageSizes == {PageSize, 50}
PagingStates ==
    [query : Queries, geo : GeoStates,
     fieldFilters : SeqsUpTo(FieldFilters, 1),
     from : PageOffsets, size : PageSizes]

NoFilters == [query |-> <<>>, geo |-> GeoOff, fieldFilters |-> <<>>,
              from |-> 0, size |-> PageSize]

----------------------------------------------------------------------------
(* Query compiler, earlier version: term clauses, geo field of the config  *)

\* the bucket and the clause one field filter contributes (switch on f.operator)
FieldClauseEarlier_RangeForNumbers(ff) ==
    LET val == Coerce(ff.value) IN
    CASE ff.operator = "eq" /\ val.type = "number" ->
            [bucket |-> "filter",
             clause |-> [kind |-> "range", field |-> ff.field,
                         op |-> "gte", val |-> val]]
      [] ff.operator = "eq" /\ val.type # "number" ->
            [bucket |-> "filter",
             clause |-> [kind |-> "term", field |-> ff.field, val |-> val]]
      [] ff.operator = "neq" ->
            [bucket |-> "must_not",
             clause |-> [kind |-> "term", field |-> ff.field, val |-> val]]
      [] ff.operator = "contains" ->
            [bucket |-> "must",
             clause |-> [kind |-> "match", field |-> ff.field, val |-> val]]
      [] ff.operator \in RangeOps ->
            [bucket |-> "filter",
             clause |-> [kind |-> "range", field |-> ff.field,
                         op |-> ff.operator, val |-> val]]
      [] ff.operator = "exists" ->
            [bucket |-> "filter",
             clause |-> [kind |-> "exists", field |-> ff.field]]
      [] OTHER -> [bucket |-> "none", clause |-> [kind |-> "none"]]
FieldClauseEarlier(ff) ==
    LET val == Coerce(ff.value) IN
    CASE ff.operator = "eq" ->
            [bucket |-> "filter",
             clause |-> [kind |-> "term", field |-> ff.field, val |-> val]]
      [] ff.operator = "neq" ->
            [bucket |-> "must_not",
             clause |-> [kind |-> "term", field |-> ff.field, val |-> val]]
      [] ff.operator = "contains" ->
            [bucket |-> "must",
             clause |-> [kind |-> "match", field |-> ff.field, val |-> val]]
      [] ff.operator \in RangeOps ->
            [bucket |-> "filter",
             clause |-> [kind |-> "range", field |-> ff.field,
                         op |-> ff.operator, val |-> val]]
      [] ff.operator = "exists" ->
            [bucket |-> "filter",
             clause |-> [kind |-> "exists", field |-> ff.field]]
      [] OTHER -> [bucket |-> "none", clause |-> [kind |-> "none"]]

RECURSIVE BucketClausesEarlier(_, _)
BucketClausesEarlier(ffs, bucket) ==
    IF ffs = <<>> THEN <<>>
    ELSE LET fc == FieldClauseEarlier(Head(ffs)) IN
         (IF fc.bucket = bucket THEN <<fc.clause>> ELSE <<>>)
             \o BucketClausesEarlier(Tail(ffs), bucket)

\* const geoField = config.geoField || 'location'
GeoClausesEarlier(f, configGeoField) ==
    IF f.geo.enabled
    THEN << [kind |-> "geo_distance",
             distance |-> NumberToString(f.geo.radius) \o <<f.geo.unit>>,
             field |-> IF configGeoField # "" THEN configGeoField ELSE "location",
             lat |-> f.geo.latitude,
             lon |-> f.geo.longitude] >>
    ELSE << >>

SortSpecEarlier == << [key |-> "_score", order |-> "desc"] >>

buildDslEarlier(f, configGeoField) ==
    [from |-> f.from,
     size |-> f.size,
     must |-> TextClauses(f) \o BucketClausesEarlier(f.fieldFilters, "must"),
     filter |-> GeoClausesEarlier(f, configGeoField)
                    \o BucketClausesEarlier(f.fieldFilters, "filter"),
     must_not |-> BucketClausesEarlier(f.fieldFilters, "must_not"),
     sort |-> SortSpecEarlier]

----------------------------------------------------------------------------
(* Execution gateway: data                                                 *)

\* The repository holds two clients and two proxies for them:
\*   gateway "proxy"  : OpenSearchService.executeRequest, which posts to /api/proxy
\*   gateway "proxyEarlier" : the earlier executeRequest, which chooses the
\*                      credential branch by config.profile alone
\*   gateway "direct" : OpenSearchService.fetchWithFailover, which fetches the nodes itself
\*   server "sigv4"   : POST /api/proxy signing with SignatureV4 and fetch
\*   server "osclient": POST /api/proxy going through the OpenSearch client
Variants ==
    { [gateway |-> "proxy", server |-> "sigv4"],
      [gateway |-> "proxy", server |-> "osclient"],
      [gateway |-> "proxyEarlier", server |-> "sigv4"],
      [gateway |-> "direct", server |-> "none"] }

NodeUrls ==
    { <<"https://", "abc", ".", "us-east-1", ".">> \o AossSuffix,
      <<"https://", "search-x", ".", "es", ".", "amazonaws", ".", "com", "/">> }

\* the named profiles of the local credential store
ProfileStore == {"default"}
ProfileNames == {"", "default", "missing"}
AccessKeys == {"", "AKIA"}

Configs ==
    [nodes : SeqsUpTo(NodeUrls, MaxNodes),
     authType : {"profile", "manual"},
     profile : ProfileNames,
     accessKey : AccessKeys,
     secretKey : {"secret"},
     index : {"idx"},
     useDemoMode : BOOLEAN]

NoConfig == [nodes |-> <<>>, authType |-> "manual", profile |-> "", accessKey |-> "",
             secretKey |-> "secret", index |-> "idx", useDemoMode |-> TRUE]

\* what a node can answer
Statuses == {200, 299, 300, 401, 403, 404, 500}

JsonBody(e, m) == [json |-> TRUE, error |-> e, message |-> m,
                   raw |-> <<"{", e, ",", m, "}">>]
TextBody == [json |-> FALSE, error |-> "", message |-> "", raw |-> <<"plain text">>]
Bodies == { JsonBody(e, m) : e \in {"", "index_not_found"}, m \in {"", "boom"} }
              \cup {TextBody}

\* a JSON value as the client sees it: the members it reads and its serialisation
Data(e, m, d, r) == [error |-> e, message |-> m, details |-> d, raw |-> r]
NoData == Data("", "", <<>>, <<>>)
BodyData(b) == Data(b.error, b.message, <<>>, b.raw)
EmptyObject == Data("", "", <<>>, <<"{}">>)

\* one entry of the log. For a request sent to a node, auth is how it was
\* authenticated: "aoss" or "es" (SigV4-signed for that service), "basic" or
\* "none"; for a credential resolution it is the result: "creds", "none" or
\* "throw". A response carries the node's status and body.
Event(ev, node, auth, status, body) ==
    [ev |-> ev, node |-> node, auth |-> auth, status |-> status, body |-> body]
ProxyRequestEvent == Event("proxy_request", 0, "", 0, TextBody)
ResolveEvent(res) == Event("resolve", 0, res, 0, TextBody)
SendEvent(node, auth) == Event("send", node, auth, 0, TextBody)
ResponseEvent(node, status, body) == Event("response", node, "", status, body)
FailEvent(node) == Event("fail", node, "", 0, TextBody)

\* what executeRequest / fetchWithFailover returns (state "ok") or throws
\* (state "error"); kind names the fixed part of the Error message, text its
\* variable part
Outcome(state, kind, status, text, data) ==
    [state |-> state, kind |-> kind, status |-> status, text |-> text, data |-> data]
NoOutcome == Outcome("none", "", 0, <<>>, NoData)
Returned(data) == Outcome("ok", "", 0, <<>>, data)
Thrown(kind, status, text) == Outcome("error", kind, status, text, NoData)

Reply(http, status, data) == [http |-> http, status |-> status, data |-> data]
NoReply == Reply(0, 0, NoData)

NoPayload == [url |-> <<>>, profile |-> "", hasCredentials |-> FALSE, accessKey |-> ""]

IsOk(status) == status >= 200 /\ status <= 299

\* Response.statusText
StatusText(http) ==
    CASE http = 400 -> <<"Bad Request">>
      [] http = 401 -> <<"Unauthorized">>
      [] http = 403 -> <<"Forbidden">>
      [] http = 404 -> <<"Not Found">>
      [] http = 500 -> <<"Internal Server Error">>
      [] OTHER -> <<"">>

----------------------------------------------------------------------------
(* Execution gateway: the client, OpenSearchService                        *)

Ops == {"search", "getIndices", "getMapping"}

\* const nodes = config.nodes && config.nodes.length > 0 ? config.nodes : []
NodesOf(c) == c.nodes

\* if (nodes.length === 0) throw new Error("No OpenSearch nodes configured.")
HasNoNodes_Never(nodes) == FALSE
HasNoNodes(nodes) == Len(nodes) = 0

\* node.replace(/\/$/, '')
StripTrailingSlash(s) ==
    IF s # <<>> /\ s[Len(s)] = "/" THEN SubSeq(s, 1, Len(s) - 1) ELSE s

\* path.startsWith('/') ? path : `/${path}`
CleanPath(path) == IF StartsWith(path, <<"/">>) THEN path ELSE <<"/">> \o path

TargetUrl(node, path) == StripTrailingSlash(node) \o CleanPath(path)

\* the path each service method asks for
PathOf(o, c) ==
    CASE o = "search" -> <<"/", c.index, "/", "_search">>
      [] o = "getMapping" -> <<"/", c.index, "/", "_mapping">>
      [] o = "getIndices" -> <<"/", "_cat", "/", "indices", "?", "format", "=", "json">>

\* the payload of executeRequest: the profile name in profile mode, the static
\* keys in manual mode, neither otherwise
BuildPayload(c, targetUrl) ==
    LET useProfile == c.authType = "profile" /\ c.profile # ""
        useKeys == ~useProfile /\ c.authType = "manual"
    IN [url |-> targetUrl,
        profile |-> IF useProfile THEN c.profile ELSE "",
        hasCredentials |-> useKeys,
        accessKey |-> IF useKeys THEN c.accessKey ELSE ""]

\* the payload of the earlier executeRequest: the profile when config.profile
\* is set, else the static keys
BuildPayloadEarlier(c, targetUrl) ==
    [url |-> targetUrl,
     profile |-> c.profile,
     hasCredentials |-> c.profile = "",
     accessKey |-> IF c.profile = "" THEN c.accessKey ELSE ""]

BuildPayloadOf(v, c, targetUrl) ==
    IF v.gateway = "proxyEarlier"
    THEN BuildPayloadEarlier(c, targetUrl)
    ELSE BuildPayload(c, targetUrl)

\* const msg = result.data?.error || result.data?.message || JSON.stringify(result.data)
ErrorMessage(d) ==
    IF d.error # "" THEN <<d.error>>
    ELSE IF d.message # "" THEN <<d.message>>
    ELSE d.raw

\* the part of executeRequest after the proxy replied
ReadReply(r) ==
    IF ~IsOk(r.http) THEN Thrown("ProxyUnreachable", 0, StatusText(r.http))
    ELSE IF r.status >= 300 THEN Thrown("OpenSearchError", r.status, ErrorMessage(r.data))
    ELSE Returned(r.data)

\* fetchWithFailover: whether the for loop has a node left after node i
HasNextNode(i, nodes) == i < Len(nodes)

\* headers of the direct client: Basic auth when both keys are set
DirectAuth(c) == IF c.accessKey # "" /\ c.secretKey # "" THEN "basic" ELSE "none"

\* getMapping swallows every error of the request; getIndices and search do not
FallbackFields == Data("", "", <<>>, <<"id:keyword", "timestamp:date">>)
MockData == Data("", "", <<>>, <<"mock">>)
\* getMapping's fallback in the client that fetches the nodes itself
FallbackFieldsDirect ==
    Data("", "", <<>>, <<"id:keyword", "status:keyword", "timestamp:date">>)
\* the empty index list the earlier getIndices returns from its catch block
NoIndices == Data("", "", <<>>, <<"[]">>)

\* what the service method makes of the outcome of its request: getMapping
\* catches every error and returns the fallback, getIndices and search let
\* the error through
WrapResult_Rethrow(o, out) == out
WrapResult(o, out) ==
    IF o = "getMapping" /\ out.state = "error" THEN Returned(FallbackFields) ELSE out

\* the earlier service: getIndices catches every error too and returns []
WrapResultEarlier(o, out) ==
    IF out.state # "error" THEN out
    ELSE CASE o = "getMapping" -> Returned(FallbackFields)
           [] o = "getIndices" -> Returned(NoIndices)
           [] OTHER -> out

\* the service that fetches the nodes itself: search rethrows
WrapResultDirect(o, out) ==
    IF o = "getMapping" /\ out.state = "error"
    THEN Returned(FallbackFieldsDirect)
    ELSE out

WrapResultOf(v, o, out) ==
    CASE v.gateway = "proxy" -> WrapResult(o, out)
      [] v.gateway = "proxyEarlier" -> WrapResultEarlier(o, out)
      [] OTHER -> WrapResultDirect(o, out)

----------------------------------------------------------------------------
(* Execution gateway: the proxy, POST /api/proxy                           *)

\* credential resolution of the SigV4 proxy: the profile through fromIni,
\* else the static keys when an access key is given, else nothing
ResolveSigV4_ThrowOnNone(p) ==
    IF p.profile # ""
    THEN (IF p.profile \in ProfileStore THEN "creds" ELSE "throw")
    ELSE IF p.hasCredentials /\ p.accessKey # "" THEN "creds"
    ELSE "throw"
ResolveSigV4(p) ==
    IF p.profile # ""
    THEN (IF p.profile \in ProfileStore THEN "creds" ELSE "throw")
    ELSE IF p.hasCredentials /\ p.accessKey # "" THEN "creds"
    ELSE "none"

\* getCredentials of the OpenSearch-client proxy: the same, but it throws
\* "No credentials provided" when there is neither
ResolveOsClient(p) ==
    IF p.profile # ""
    THEN (IF p.profile \in ProfileStore THEN "creds" ELSE "throw")
    ELSE IF p.hasCredentials /\ p.accessKey # "" THEN "creds"
    ELSE "throw"

\* the request is signed for the classified service when credentials resolved
SendAuth_AlwaysSigned(res, target) == Classify(target)
SendAuth(res, target) == IF res = "creds" THEN Classify(target) ELSE "none"

CredentialErrorReply ==
    Reply(403, 0, Data("Credential Error", "", <<"profile not found">>, <<>>))

\* the SigV4 proxy's reply to a node's response on the signed path
SignedReply(status, body) ==
    IF status = 403 \/ status = 401
    THEN Reply(200, status, Data("Authentication Failed", "", body.raw,
                                 <<"{", "Authentication Failed", ",">> \o body.raw \o <<"}">>))
    ELSE IF body.json THEN Reply(200, status, BodyData(body))
    \* response.json() has consumed the body, so response.text() in its catch
    \* handler rejects and the outer catch answers 500
    ELSE Reply(500, 0, Data("", "Body already used", <<>>, <<>>))

\* ... and on the unsigned path
UnsignedReply(status, body) ==
    Reply(200, status, IF body.json THEN BodyData(body) ELSE EmptyObject)

\* the OpenSearch-client proxy's reply: the client throws a ResponseError for
\* a status of 400 or more, and the catch block answers with that status
OsClientReply(status, body) ==
    IF status >= 400
    THEN Reply(status, status, Data("ResponseError", "Response Error", body.raw, <<>>))
    ELSE Reply(200, status, BodyData(body))

----------------------------------------------------------------------------
(* Collection discovery: data                                              *)

\* a text state that is null
NoText == <<"null">>

Regions == {"us-east-1"}

\* formData of the settings dialog
Forms ==
    [authType : {"profile", "manual"},
     profile : ProfileNames,
     accessKey : AccessKeys,
     region : Regions]
NoForm == [authType |-> "manual", profile |-> "", accessKey |-> "", region |-> "us-east-1"]

CollectionIds == {"c1", "c2"}

\* endpoint: `https://${c.id}.${awsRegion}.aoss.amazonaws.com`
CollectionEndpoint(id, region) == <<"https://", id, ".", region, ".">> \o AossSuffix

\* one entry of the collections the server returns
Collection(id, region) ==
    [name |-> id, id |-> id, endpoint |-> CollectionEndpoint(id, region)]

RECURSIVE Collections(_, _)
Collections(ids, region) ==
    IF ids = <<>> THEN <<>>
    ELSE <<Collection(Head(ids), region)>> \o Collections(Tail(ids), region)

\* what the AWS API can do with ListCollections. kind is "transport" (fetch
\* rejects), "status" (a response that is not ok), "text" (an ok response
\* whose body is not JSON), "bare" (an ok JSON body without collectionSummaries)
\* or "list" (an ok JSON body with collectionSummaries = ids)
AwsOutcome(kind, status, ids, message) ==
    [kind |-> kind, status |-> status, ids |-> ids, message |-> message]
NoAwsOutcome == AwsOutcome("none", 0, <<>>, <<>>)
TransportMessages == { <<"fetch failed">>, <<>> }
AwsOutcomes ==
    { AwsOutcome("transport", 0, <<>>, m) : m \in TransportMessages }
      \cup { AwsOutcome("status", st, <<>>, <<"denied">>) : st \in {400, 403, 500} }
      \cup { AwsOutcome("text", 200, <<>>, <<"plain text">>),
             AwsOutcome("bare", 200, <<>>, <<>>) }
      \cup { AwsOutcome("list", 200, ids, <<>>) : ids \in SeqsUpTo(CollectionIds, MaxCollections) }

\* the reply of /api/aws-discovery: HTTP status, and the members of its JSON body
DiscReply(http, hasCollections, collections, error) ==
    [http |-> http, hasCollections |-> hasCollections,
     collections |-> collections, error |-> error]
NoDiscReply == DiscReply(0, FALSE, <<>>, <<>>)

\* the states of the endpoint input when discovery runs
NodesInputs ==
    { <<>>, <<" ">>, CollectionEndpoint("c2", "us-east-1"),
      <<"https://", "search-x", ".", "es", ".", "amazonaws", ".", "com">> }

NoneFoundText == <<"No Serverless Collections found.">>

\* the settings dialog, when it is not the part under study
DiscoveryIdle ==
    /\ formData = NoForm
    /\ nodesInput = <<>>
    /\ discPc = "idle"
    /\ awsOutcome = NoAwsOutcome
    /\ discReply = NoDiscReply
    /\ discovering = FALSE
    /\ discoveryError = NoText
    /\ discoveredCollections = <<>>

----------------------------------------------------------------------------
(* Profile listing: GET /api/aws-profiles                                  *)

\* a file of the store: absent, unreadable, or readable with its sections
AbsentFile == [state |-> "absent", sections |-> <<>>]
UnreadableFile == [state |-> "unreadable", sections |-> <<>>]
ReadableFile(sections) == [state |-> "readable", sections |-> sections]

SectionNames == { <<"default">>, <<"dev">>, <<"profile", " ", "dev">> }
Files ==
    {AbsentFile, UnreadableFile}
      \cup { ReadableFile(ss) : ss \in SeqsUpTo(SectionNames, MaxSections) }

\* the two servers: "ini" reads the first readable file itself, "loader"
\* goes through loadSharedConfigFiles
ProfileVersions == {"ini", "loader"}
Stores == [version : ProfileVersions, credentials : Files, config : Files]
NoStore == [version |-> "loader", credentials |-> AbsentFile, config |-> AbsentFile]

ProfReply(http, profiles) == [http |-> http, profiles |-> profiles]
NoProfReply == ProfReply(0, <<>>)

\* k.replace(/^profile\s+/, '')
StripProfilePrefix(k) ==
    IF Len(k) >= 2 /\ k[1] = "profile" /\ k[2] \in WhiteSpace
    THEN TrimStart(SubSeq(k, 2, Len(k)))
    ELSE k

RECURSIVE MapStrip(_)
MapStrip(ks) ==
    IF ks = <<>> THEN <<>> ELSE <<StripProfilePrefix(Head(ks))>> \o MapStrip(Tail(ks))

\* [...new Set(list)]: the first occurrence of every element, in order
RECURSIVE Dedupe(_)
Dedupe(ks) ==
    IF ks = <<>> THEN <<>>
    ELSE LET front == Dedupe(SubSeq(ks, 1, Len(ks) - 1))
             last == ks[Len(ks)]
         IN IF \E i \in DOMAIN front : front[i] = last
            THEN front ELSE Append(front, last)

\* getAwsCredentialsFile: the first of credentials, config that can be read;
\* access or readFile throwing is caught and the next path is tried
FirstReadable_NoCatch(store) ==
    IF store.credentials.state = "readable" THEN store.credentials
    ELSE IF store.credentials.state = "unreadable" THEN [state |-> "thrown", sections |-> <<>>]
    ELSE IF store.config.state = "readable" THEN store.config
    ELSE IF store.config.state = "unreadable" THEN [state |-> "thrown", sections |-> <<>>]
    ELSE AbsentFile
FirstReadable(store) ==
    IF store.credentials.state = "readable" THEN store.credentials
    ELSE IF store.config.state = "readable" THEN store.config
    ELSE AbsentFile

\* GET /api/aws-profiles of the "ini" server
IniProfiles(store) ==
    LET fileData == FirstReadable(store) IN
    IF fileData.state = "thrown" THEN ProfReply(500, <<>>)
    ELSE IF fileData.state # "readable" THEN ProfReply(200, <<>>)
    ELSE ProfReply(200, Dedupe(MapStrip(fileData.sections)))

\* GET /api/aws-profiles of the "loader" server. loaderThrows says whether
\* loadSharedConfigFiles rejects on a file it cannot read; a file it does
\* not read counts as empty
LoaderProfiles(store, loaderThrows) ==
    IF loaderThrows
    THEN ProfReply(200, <<>>)
    ELSE ProfReply(200, Dedupe(MapStrip(store.config.sections)
                                   \o store.credentials.sections))

ProfilesIdle ==
    /\ profStore = NoStore
    /\ profReply = NoProfReply
    /\ profServed = 0

----------------------------------------------------------------------------
(* Mapping flattener: OpenSearchService.flattenMapping                     *)

FieldNames == {"a", "b"}
FieldTypes == {"keyword"}

\* the number of entries of a properties object, nested ones included
RECURSIVE Size(_)
Size(props) ==
    IF props = <<>> THEN 0
    ELSE 1 + Size(Head(props).properties) + Size(Tail(props))

\* the properties objects of up to n entries, as the sequence of their entries
\* in key order; an entry is a leaf or a container with properties
RECURSIVE Schemas(_)
Schemas(n) ==
    IF n = 0 THEN {<<>>}
    ELSE LET deeper == Schemas(n - 1)
             entries ==
                 [name : FieldNames, container : {FALSE},
                  type : FieldTypes, properties : {<<>>}]
                   \cup [name : FieldNames, container : {TRUE},
                         type : {"object"}, properties : deeper]
             EntrySize(e) == 1 + Size(e.properties)
             fitting == {e \in entries : EntrySize(e) <= n}
         IN {<<>>} \cup { <<e>> : e \in fitting }
              \cup { <<pair[1], pair[2]>> :
                        pair \in { q \in fitting \X fitting :
                                      /\ q[1].name # q[2].name
                                      /\ EntrySize(q[1]) + EntrySize(q[2]) <= n } }

NotFlattened == << [path |-> <<>>, type |-> "none"] >>

\* static flattenMapping(properties, prefix = '')
RECURSIVE flattenMapping_ContainersToo(_, _)
flattenMapping_ContainersToo(properties, prefix) ==
    IF properties = <<>> THEN <<>>
    ELSE LET prop == Head(properties)
             path == IF prefix # <<>> THEN prefix \o <<".", prop.name>>
                     ELSE <<prop.name>>
         IN (IF prop.container
             THEN <<[path |-> path, type |-> prop.type]>>
                      \o flattenMapping_ContainersToo(prop.properties, path)
             ELSE <<[path |-> path, type |-> prop.type]>>)
                \o flattenMapping_ContainersToo(Tail(properties), prefix)
RECURSIVE flattenMapping(_, _)
flattenMapping(properties, prefix) ==
    IF properties = <<>> THEN <<>>
    ELSE LET prop == Head(properties)
             path == IF prefix # <<>> THEN prefix \o <<".", prop.name>>
                     ELSE <<prop.name>>
         IN (IF prop.container
             THEN flattenMapping(prop.properties, path)
             ELSE <<[path |-> path, type |-> prop.type]>>)
                \o flattenMapping(Tail(properties), prefix)

FlattenerIdle ==
    /\ schema = <<>>
    /\ fields = NotFlattened

----------------------------------------------------------------------------
(* App: fetchData, the debounce effect and the index list                  *)

AppVersions == {"paged", "scroll"}
IndexNames == {"logs", "metrics"}
AppConfigs == [useDemoMode : BOOLEAN, hasNodes : BOOLEAN, index : IndexNames]

\* the index lists getIndices answers with: none, one index, two indices
IndexLists == { <<>>, <<"logs">>, <<"metrics", "logs">> }
DemoIndices == <<"demo-index">>

\* the auto-select effect: with a non-empty list that does not hold
\* config.index, handleSaveConfig({ ...config, index: indices[0].index })
AutoSelect_Always(config, list) ==
    IF list # <<>> /\ config.index # list[1]
    THEN [config EXCEPT !.index = list[1]]
    ELSE config
AutoSelect(config, list) ==
    IF list # <<>>
    THEN IF ~\E i \in DOMAIN list : list[i] = config.index
         THEN IF config.index # list[1]
              THEN [config EXCEPT !.index = list[1]]
              ELSE config
         ELSE config
    ELSE config

\* a search response, as far as the App stores it: the search it answers and
\* its hits (one hit, named after the search)
NoAppData == [of |-> 0, hits |-> <<>>]
Response(search) == [of |-> search.id, hits |-> <<search.id>>]

\* { ...response, hits: { ...response.hits, hits: [...prevData.hits.hits, ...response.hits.hits] } }
MergeHits(prev, response) == [of |-> response.of, hits |-> prev.hits \o response.hits]

\* what setData stores for the response of a search
StoreResponse_NewestWins(version, prev, search) ==
    IF prev.of > search.id THEN prev ELSE Response(search)
StoreResponse(version, prev, search) ==
    IF version = "paged" THEN Response(search)
    ELSE IF search.from = 0 THEN Response(search)
    ELSE IF prev # NoAppData THEN MergeHits(prev, Response(search))
    ELSE Response(search)

\* fetchData as useCallback made it for one render: the filters and config
\* generation it closes over and whether its guard returns early
FetchData(g, crit, from, config, li, ie) ==
    [gen |-> g, criteria |-> crit, from |-> from, demo |-> config.useDemoMode,
     blocked |-> ~config.useDemoMode /\ (ie \/ li)]

\* return () => clearTimeout(timer)
Cleanup_Keep(ts) == ts
Cleanup(ts) == {}

AppIdle ==
    /\ appVersion = "paged"
    /\ appConfig = [useDemoMode |-> TRUE, hasNodes |-> FALSE, index |-> "logs"]
    /\ gen = 0
    /\ appFrom = 0
    /\ criteria = 0
    /\ loadingIndices = FALSE
    /\ indicesError = FALSE
    /\ indexLoads = 0
    /\ indices = <<>>
    /\ loadEnded = "none"
    /\ timers = {}
    /\ issued = <<>>
    /\ inflight = {}
    /\ completed = <<>>
    /\ appData = NoAppData
    /\ prevData = NoAppData
    /\ lastWrite = 0
    /\ appError = FALSE
    /\ loading = FALSE
    /\ replaced = {}

UiIdle == DiscoveryIdle /\ ProfilesIdle /\ FlattenerIdle /\ AppIdle

----------------------------------------------------------------------------
(* Specification of the classifier: one URL, classified once               *)

\* the gateway, when it is not the part under study
GatewayIdle ==
    /\ variant = [gateway |-> "proxy", server |-> "sigv4"]
    /\ cfg = NoConfig
    /\ op = "search"
    /\ pc = "idle"
    /\ payload = NoPayload
    /\ nodeIdx = 0
    /\ log = <<>>
    /\ proxyReply = NoReply
    /\ lastError = NoOutcome
    /\ execOutcome = NoOutcome
    /\ result = NoOutcome

ClassifyInit ==
    /\ url \in [host : Hosts, path : Paths]
    /\ service = "none"
    /\ filters = NoFilters
    /\ dsl = NoDsl
    /\ DslIdle
    /\ GatewayIdle
    /\ UiIdle

ClassifyUrl ==
    /\ service = "none"
    /\ service' = Classify(UrlString(url))
    /\ UNCHANGED <<url, dslVars, gwVars, uiVars>>

ClassifyNext == ClassifyUrl

SpecClassify == ClassifyInit /\ [][ClassifyNext]_vars

----------------------------------------------------------------------------
(* Specification of the compiler: one filter state, compiled once          *)

DslInit ==
    /\ filters \in FilterStates
    /\ dsl = NoDsl
    /\ DslIdle
    /\ url = NoUrl
    /\ service = "none"
    /\ GatewayIdle
    /\ UiIdle

Compile ==
    /\ dsl = NoDsl
    /\ dsl' = buildDsl(filters)
    /\ dslVersion' = "current"
    /\ UNCHANGED <<filters, dslConfig, classifyVars, gwVars, uiVars>>

DslNext == Compile

SpecDsl == DslInit /\ [][DslNext]_vars

\* both versions of the compiler applied to the same filter states
CompileEarlier ==
    /\ dsl = NoDsl
    /\ dsl' = buildDslEarlier(filters, dslConfig.geoField)
    /\ dslVersion' = "earlier"
    /\ UNCHANGED <<classifyVars, filters, dslConfig, gwVars, uiVars>>

DslVersionsNext == Compile \/ CompileEarlier

\* the filter states with every geo field the config can name
DslVersionsInit ==
    /\ filters \in FilterStates
    /\ dsl = NoDsl
    /\ dslConfig \in DslConfigs
    /\ dslVersion = "none"
    /\ url = NoUrl
    /\ service = "none"
    /\ GatewayIdle
    /\ UiIdle

SpecDslVersions == DslVersionsInit /\ [][DslVersionsNext]_vars

\* the compiler applied to one field filter, over all short values
CoerceInit ==
    /\ filters \in CoerceStates
    /\ dsl = NoDsl
    /\ DslIdle
    /\ url = NoUrl
    /\ service = "none"
    /\ GatewayIdle
    /\ UiIdle

SpecCoerce == CoerceInit /\ [][DslNext]_vars

\* the compiler applied to shallow and deep pages
PagingInit ==
    /\ filters \in PagingStates
    /\ dsl = NoDsl
    /\ DslIdle
    /\ url = NoUrl
    /\ service = "none"
    /\ GatewayIdle
    /\ UiIdle

SpecPaging == PagingInit /\ [][DslNext]_vars

----------------------------------------------------------------------------
(* Specification of the gateway: one service call, from the call to its    *)
(* result, with the nodes and the proxy answering as they please           *)

Init ==
    /\ variant \in Variants
    /\ cfg \in Configs
    /\ variant.gateway = "direct" => cfg.authType = "manual" /\ cfg.profile = ""
    /\ op \in Ops
    /\ variant.gateway = "direct" => op # "getIndices"
    /\ pc = "idle"
    /\ payload = NoPayload
    /\ nodeIdx = 0
    /\ log = <<>>
    /\ proxyReply = NoReply
    /\ lastError = NoOutcome
    /\ execOutcome = NoOutcome
    /\ result = NoOutcome
    /\ url = NoUrl
    /\ service = "none"
    /\ filters = NoFilters
    /\ dsl = NoDsl
    /\ DslIdle
    /\ UiIdle

others == <<classifyVars, dslVars, variant, cfg, op, uiVars>>

\* search / getIndices / getMapping with useDemoMode: mock data, no request
\* (DemoCall_AfterNodesCheck: the demo branch taken only after the node list
\* was looked at)
DemoCall_AfterNodesCheck ==
    /\ pc = "idle"
    /\ cfg.useDemoMode
    /\ IF HasNoNodes(NodesOf(cfg))
       THEN /\ execOutcome' = Thrown("NoNodes", 0, <<>>)
            /\ result' = Thrown("NoNodes", 0, <<>>)
       ELSE /\ result' = Returned(MockData)
            /\ UNCHANGED execOutcome
    /\ pc' = "done"
    /\ UNCHANGED <<others, payload, nodeIdx, log, proxyReply, lastError>>
DemoCall ==
    /\ pc = "idle"
    /\ cfg.useDemoMode
    /\ result' = Returned(MockData)
    /\ pc' = "done"
    /\ UNCHANGED <<others, payload, nodeIdx, log, proxyReply, lastError, execOutcome>>

\* executeRequest up to its fetch of the proxy
executeRequest ==
    /\ pc = "idle"
    /\ ~cfg.useDemoMode
    /\ variant.gateway \in {"proxy", "proxyEarlier"}
    /\ LET nodes == NodesOf(cfg) IN
       IF HasNoNodes(nodes)
       THEN /\ execOutcome' = Thrown("NoNodes", 0, <<>>)
            /\ pc' = "exec_done"
            /\ UNCHANGED <<payload, log>>
       ELSE IF Len(nodes) = 0
       \* nodes[0] is undefined and .replace throws
       THEN /\ execOutcome' = Thrown("TypeError", 0, <<>>)
            /\ pc' = "exec_done"
            /\ UNCHANGED <<payload, log>>
       ELSE /\ payload' = BuildPayloadOf(variant, cfg, TargetUrl(nodes[1], PathOf(op, cfg)))
            /\ log' = Append(log, ProxyRequestEvent)
            /\ pc' = "proxy_pending"
            /\ UNCHANGED execOutcome
    /\ UNCHANGED <<others, nodeIdx, proxyReply, lastError, result>>

\* fetch(proxyUrl) rejects: the request or the reply is lost
ProxyUnreachable ==
    /\ pc \in {"proxy_pending", "proxy_replied"}
    /\ execOutcome' = Thrown("FetchFailed", 0, <<>>)
    /\ pc' = "exec_done"
    /\ UNCHANGED <<others, payload, nodeIdx, log, proxyReply, lastError, result>>

\* POST /api/proxy (SigV4) up to its fetch of the node
SigV4Handle ==
    /\ pc = "proxy_pending"
    /\ variant.server = "sigv4"
    /\ IF payload.url = <<>>
       THEN /\ proxyReply' = Reply(400, 0, NoData)
            /\ pc' = "proxy_replied"
            /\ UNCHANGED log
       ELSE LET res == ResolveSigV4(payload) IN
            IF res = "throw"
            THEN /\ log' = Append(log, ResolveEvent(res))
                 /\ proxyReply' = CredentialErrorReply
                 /\ pc' = "proxy_replied"
            ELSE /\ log' = log \o << ResolveEvent(res),
                                     SendEvent(1, SendAuth(res, payload.url)) >>
                 /\ pc' = "node_pending"
                 /\ UNCHANGED proxyReply
    /\ UNCHANGED <<others, payload, nodeIdx, lastError, execOutcome, result>>

\* the last request sent to a node
LastSend == log[CHOOSE i \in DOMAIN log :
                   /\ log[i].ev = "send"
                   /\ \A j \in DOMAIN log : log[j].ev = "send" => j <= i]

\* POST /api/proxy (SigV4) after the node answered
SigV4Response(status, body) ==
    /\ pc = "node_pending"
    /\ variant.server = "sigv4"
    /\ log' = Append(log, ResponseEvent(1, status, body))
    /\ proxyReply' = IF LastSend.auth # "none"
                     THEN SignedReply(status, body)
                     ELSE UnsignedReply(status, body)
    /\ pc' = "proxy_replied"
    /\ UNCHANGED <<others, payload, nodeIdx, lastError, execOutcome, result>>

\* POST /api/proxy (SigV4), the fetch of the node rejects
SigV4TransportFail ==
    /\ pc = "node_pending"
    /\ variant.server = "sigv4"
    /\ log' = Append(log, FailEvent(1))
    /\ proxyReply' = Reply(500, 0, Data("", "fetch failed", <<>>, <<>>))
    /\ pc' = "proxy_replied"
    /\ UNCHANGED <<others, payload, nodeIdx, lastError, execOutcome, result>>

\* POST /api/proxy (OpenSearch client) up to the client's request to the node
OsClientHandle ==
    /\ pc = "proxy_pending"
    /\ variant.server = "osclient"
    /\ IF payload.url = <<>>
       THEN /\ proxyReply' = Reply(400, 0, NoData)
            /\ pc' = "proxy_replied"
            /\ UNCHANGED log
       ELSE LET res == ResolveOsClient(payload) IN
            IF res = "throw"
            THEN /\ log' = Append(log, ResolveEvent(res))
                 /\ proxyReply' = Reply(500, 500, Data("Error", "No credentials provided",
                                                        <<>>, <<>>))
                 /\ pc' = "proxy_replied"
            ELSE /\ log' = log \o << ResolveEvent(res),
                                     SendEvent(1, SendAuth(res, payload.url)) >>
                 /\ pc' = "node_pending"
                 /\ UNCHANGED proxyReply
    /\ UNCHANGED <<others, payload, nodeIdx, lastError, execOutcome, result>>

\* POST /api/proxy (OpenSearch client) after the node answered
OsClientResponse(status, body) ==
    /\ pc = "node_pending"
    /\ variant.server = "osclient"
    /\ log' = Append(log, ResponseEvent(1, status, body))
    /\ proxyReply' = OsClientReply(status, body)
    /\ pc' = "proxy_replied"
    /\ UNCHANGED <<others, payload, nodeIdx, lastError, execOutcome, result>>

\* POST /api/proxy (OpenSearch client), the request fails without a response
\* (the client library's own retries of the node are not modelled)
OsClientTransportFail ==
    /\ pc = "node_pending"
    /\ variant.server = "osclient"
    /\ log' = Append(log, FailEvent(1))
    /\ proxyReply' = Reply(500, 500, Data("ConnectionError", "connect failed", <<>>, <<>>))
    /\ pc' = "proxy_replied"
    /\ UNCHANGED <<others, payload, nodeIdx, lastError, execOutcome, result>>

\* executeRequest after the proxy replied
ClientReceive ==
    /\ pc = "proxy_replied"
    /\ execOutcome' = ReadReply(proxyReply)
    /\ pc' = "exec_done"
    /\ UNCHANGED <<others, payload, nodeIdx, log, proxyReply, lastError, result>>

\* fetchWithFailover up to its first fetch
fetchWithFailover ==
    /\ pc = "idle"
    /\ ~cfg.useDemoMode
    /\ variant.gateway = "direct"
    /\ LET nodes == NodesOf(cfg) IN
       IF HasNoNodes(nodes)
       THEN /\ execOutcome' = Thrown("NoNodes", 0, <<>>)
            /\ pc' = "exec_done"
            /\ UNCHANGED <<nodeIdx, log>>
       ELSE IF Len(nodes) = 0
       \* the loop body never runs: throw lastError || new Error("All nodes failed.")
       THEN /\ execOutcome' = Thrown("AllNodesFailed", 0, <<>>)
            /\ pc' = "exec_done"
            /\ UNCHANGED <<nodeIdx, log>>
       ELSE /\ nodeIdx' = 1
            /\ log' = Append(log, SendEvent(1, DirectAuth(cfg)))
            /\ pc' = "node_pending"
            /\ UNCHANGED execOutcome
    /\ UNCHANGED <<others, payload, proxyReply, lastError, result>>

\* fetchWithFailover, the catch block and the next turn of the loop
DirectContinue(event, err) ==
    /\ lastError' = err
    /\ IF HasNextNode(nodeIdx, NodesOf(cfg))
       THEN /\ nodeIdx' = nodeIdx + 1
            /\ log' = log \o <<event, SendEvent(nodeIdx + 1, DirectAuth(cfg))>>
            /\ UNCHANGED <<pc, execOutcome>>
       ELSE /\ log' = Append(log, event)
            /\ execOutcome' = err
            /\ pc' = "exec_done"
            /\ UNCHANGED nodeIdx

\* fetchWithFailover after a node answered
DirectResponse(status, body) ==
    /\ pc = "node_pending"
    /\ variant.gateway = "direct"
    /\ IF IsOk(status) /\ body.json
       THEN /\ log' = Append(log, ResponseEvent(nodeIdx, status, body))
            /\ execOutcome' = Returned(BodyData(body))
            /\ pc' = "exec_done"
            /\ UNCHANGED <<nodeIdx, lastError>>
       ELSE DirectContinue(ResponseEvent(nodeIdx, status, body),
                           IF ~IsOk(status)
                           THEN Thrown("HttpError", status, body.raw)
                           ELSE Thrown("ParseError", 0, <<>>))
    /\ UNCHANGED <<others, payload, proxyReply, result>>

\* fetchWithFailover, the fetch of the node rejects
DirectTransportFail ==
    /\ pc = "node_pending"
    /\ variant.gateway = "direct"
    /\ DirectContinue(FailEvent(nodeIdx), Thrown("FetchFailed", 0, <<>>))
    /\ UNCHANGED <<others, payload, proxyReply, result>>

\* search / getIndices / getMapping after the request ended
Finish ==
    /\ pc = "exec_done"
    /\ result' = WrapResultOf(variant, op, execOutcome)
    /\ pc' = "done"
    /\ UNCHANGED <<others, payload, nodeIdx, log, proxyReply, lastError, execOutcome>>

Next ==
    \/ DemoCall
    \/ executeRequest
    \/ ProxyUnreachable
    \/ SigV4Handle
    \/ \E st \in Statuses, b \in Bodies : SigV4Response(st, b)
    \/ SigV4TransportFail
    \/ OsClientHandle
    \/ \E st \in Statuses, b \in Bodies : OsClientResponse(st, b)
    \/ OsClientTransportFail
    \/ ClientReceive
    \/ fetchWithFailover
    \/ \E st \in Statuses, b \in Bodies : DirectResponse(st, b)
    \/ DirectTransportFail
    \/ Finish

Spec == Init /\ [][Next]_vars

----------------------------------------------------------------------------
(* Collection discovery: handleDiscoverClusters and POST /api/aws-discovery *)

\* the body handleDiscoverClusters posts
DiscoveryPayload(form) ==
    [url |-> <<>>,
     profile |-> IF form.authType = "profile" THEN form.profile ELSE "",
     hasCredentials |-> form.authType # "profile",
     accessKey |-> IF form.authType # "profile" THEN form.accessKey ELSE ""]

\* credential resolution of the discovery route
ResolveDiscovery(p) ==
    IF p.profile # ""
    THEN (IF p.profile \in ProfileStore THEN "creds" ELSE "throw")
    ELSE IF p.hasCredentials /\ p.accessKey # "" THEN "creds"
    ELSE "none"

\* the reply of the route once the credentials are resolved, for each thing
\* the AWS API can do
DiscoveryReplyOf_FailureIsEmpty(out, region) ==
    CASE out.kind = "transport" -> DiscReply(200, TRUE, <<>>, <<>>)
      [] out.kind = "status" -> DiscReply(200, TRUE, <<>>, <<>>)
      [] out.kind = "text" -> DiscReply(500, FALSE, <<>>, <<"Unexpected token">>)
      [] out.kind = "bare" -> DiscReply(200, TRUE, <<>>, <<>>)
      [] out.kind = "list" -> DiscReply(200, TRUE, Collections(out.ids, region), <<>>)
DiscoveryReplyOf(out, region) ==
    CASE out.kind = "transport" -> DiscReply(500, FALSE, <<>>, out.message)
      [] out.kind = "status" ->
            DiscReply(500, FALSE, <<>>,
                      <<"AWS API Error (">> \o NumberToString(out.status)
                          \o <<"): ">> \o out.message)
      [] out.kind = "text" -> DiscReply(500, FALSE, <<>>, <<"Unexpected token">>)
      [] out.kind = "bare" -> DiscReply(200, TRUE, <<>>, <<>>)
      [] out.kind = "list" -> DiscReply(200, TRUE, Collections(out.ids, region), <<>>)

\* a || b on texts
OrElse(a, b) == IF a # <<>> THEN a ELSE b

\* setNodesInput(currentInput => ...): keep the input when it names one of the
\* collections, else take the first collection's endpoint
AutoPopulate(currentInput, collections) ==
    IF \/ Trim(currentInput) = <<>>
       \/ ~\E i \in DOMAIN collections : collections[i].endpoint = Trim(currentInput)
    THEN collections[1].endpoint
    ELSE currentInput

DiscoveryInit ==
    /\ formData \in Forms
    /\ nodesInput \in NodesInputs
    /\ discPc = "idle"
    /\ awsOutcome = NoAwsOutcome
    /\ discReply = NoDiscReply
    /\ discovering = FALSE
    /\ discoveryError = NoText
    /\ discoveredCollections = <<>>
    /\ url = NoUrl
    /\ service = "none"
    /\ filters = NoFilters
    /\ dsl = NoDsl
    /\ DslIdle
    /\ GatewayIdle
    /\ ProfilesIdle
    /\ FlattenerIdle
    /\ AppIdle

discRest == <<classifyVars, dslVars, gwVars, formData, profVars, flatVars, appVars>>

\* handleDiscoverClusters up to the fetch of the discovery route
handleDiscoverClusters ==
    /\ discPc \in {"idle", "done"}
    /\ discovering' = TRUE
    /\ discoveryError' = NoText
    /\ awsOutcome' = NoAwsOutcome
    /\ discReply' = NoDiscReply
    /\ discPc' = "pending"
    /\ UNCHANGED <<discRest, nodesInput, discoveredCollections>>

\* POST /api/aws-discovery
AwsDiscovery ==
    /\ discPc = "pending"
    /\ LET res == ResolveDiscovery(DiscoveryPayload(formData)) IN
       CASE res = "throw" ->
               /\ awsOutcome' = AwsOutcome("credfail", 0, <<>>, <<>>)
               /\ discReply' = DiscReply(403, FALSE, <<>>, <<"Credential Error">>)
         [] res = "none" ->
               /\ awsOutcome' = AwsOutcome("nocreds", 0, <<>>, <<>>)
               /\ discReply' = DiscReply(401, FALSE, <<>>, <<"No credentials provided">>)
         [] res = "creds" ->
               \E out \in AwsOutcomes :
                  /\ awsOutcome' = out
                  /\ discReply' = DiscoveryReplyOf(out, formData.region)
    /\ discPc' = "replied"
    /\ UNCHANGED <<discRest, nodesInput, discovering, discoveryError,
                   discoveredCollections>>

\* the fetch of the discovery route rejects: catch and finally
DiscoveryUnreachable ==
    /\ discPc \in {"pending", "replied"}
    /\ \E m \in TransportMessages :
          discoveryError' = OrElse(m, <<"Discovery failed">>)
    /\ awsOutcome' = IF discPc = "pending"
                      THEN AwsOutcome("unreachable", 0, <<>>, <<>>)
                      ELSE [awsOutcome EXCEPT !.kind = "lost"]
    /\ discoveredCollections' = <<>>
    /\ discovering' = FALSE
    /\ discPc' = "done"
    /\ UNCHANGED <<discRest, nodesInput, discReply>>

\* handleDiscoverClusters from res.json() to the end
DiscoveryReceive ==
    /\ discPc = "replied"
    /\ IF ~IsOk(discReply.http)
       THEN /\ discoveryError' =
                  OrElse(OrElse(discReply.error, <<"Failed to discover clusters">>),
                         <<"Discovery failed">>)
            /\ discoveredCollections' = <<>>
            /\ UNCHANGED nodesInput
       ELSE IF discReply.hasCollections /\ Len(discReply.collections) > 0
       THEN /\ discoveredCollections' = discReply.collections
            /\ nodesInput' = AutoPopulate(nodesInput, discReply.collections)
            /\ UNCHANGED discoveryError
       ELSE /\ discoveryError' = NoneFoundText
            /\ discoveredCollections' = <<>>
            /\ UNCHANGED nodesInput
    /\ discovering' = FALSE
    /\ discPc' = "done"
    /\ UNCHANGED <<discRest, awsOutcome, discReply>>

DiscoveryNext ==
    \/ handleDiscoverClusters
    \/ AwsDiscovery
    \/ DiscoveryUnreachable
    \/ DiscoveryReceive

SpecDiscovery == DiscoveryInit /\ [][DiscoveryNext]_vars

----------------------------------------------------------------------------
(* Specification of the profile listing                                    *)

ProfilesInit ==
    /\ profStore \in Stores
    /\ profReply = NoProfReply
    /\ profServed = 0
    /\ url = NoUrl
    /\ service = "none"
    /\ filters = NoFilters
    /\ dsl = NoDsl
    /\ DslIdle
    /\ GatewayIdle
    /\ DiscoveryIdle
    /\ FlattenerIdle
    /\ AppIdle

\* GET /api/aws-profiles
ListProfiles ==
    /\ profServed < MaxListings
    /\ \/ /\ profStore.version = "ini"
          /\ profReply' = IniProfiles(profStore)
       \/ /\ profStore.version = "loader"
          /\ \E loaderThrows \in BOOLEAN :
                /\ loaderThrows => "unreadable" \in {profStore.credentials.state,
                                                     profStore.config.state}
                /\ profReply' = LoaderProfiles(profStore, loaderThrows)
    /\ profServed' = profServed + 1
    /\ UNCHANGED <<classifyVars, dslVars, gwVars, discVars, flatVars, appVars, profStore>>

ProfilesNext == ListProfiles

SpecProfiles == ProfilesInit /\ [][ProfilesNext]_vars

----------------------------------------------------------------------------
(* Specification of the mapping flattener                                  *)

FlattenerInit ==
    /\ schema \in Schemas(MaxEntries)
    /\ fields = NotFlattened
    /\ url = NoUrl
    /\ service = "none"
    /\ filters = NoFilters
    /\ dsl = NoDsl
    /\ DslIdle
    /\ GatewayIdle
    /\ DiscoveryIdle
    /\ ProfilesIdle
    /\ AppIdle

FlattenSchema ==
    /\ fields = NotFlattened
    /\ fields' = flattenMapping(schema, <<>>)
    /\ UNCHANGED <<classifyVars, dslVars, gwVars, discVars, profVars, appVars, schema>>

FlattenerNext == FlattenSchema

SpecFlattener == FlattenerInit /\ [][FlattenerNext]_vars

----------------------------------------------------------------------------
(* The App: searches, the debounce effect, the index list                  *)

appRest == <<classifyVars, dslVars, gwVars, discVars, profVars, flatVars>>

\* the fetchData of the current render
CurrentFetchData ==
    FetchData(gen, criteria, appFrom, appConfig, loadingIndices, indicesError)

\* the state after the first render and its effects: the debounce timer is
\* armed and the index list is being loaded (demo mode answers at once)
AppInit ==
    /\ appVersion \in AppVersions
    /\ \E config \in AppConfigs :
          /\ indices = (IF config.useDemoMode THEN DemoIndices ELSE <<>>)
          /\ appConfig = AutoSelect(config, indices)
    /\ loadEnded = (IF appConfig.useDemoMode THEN "ok" ELSE "none")
    /\ gen = 0
    /\ appFrom = 0
    /\ criteria = 0
    /\ loadingIndices = (~appConfig.useDemoMode /\ appConfig.hasNodes)
    /\ indicesError = FALSE
    /\ indexLoads = (IF ~appConfig.useDemoMode /\ appConfig.hasNodes THEN 1 ELSE 0)
    /\ timers = {FetchData(0, 0, 0, appConfig, loadingIndices, FALSE)}
    /\ issued = <<>>
    /\ inflight = {}
    /\ completed = <<>>
    /\ appData = NoAppData
    /\ prevData = NoAppData
    /\ lastWrite = 0
    /\ appError = FALSE
    /\ loading = FALSE
    /\ replaced = {}
    /\ url = NoUrl
    /\ service = "none"
    /\ filters = NoFilters
    /\ dsl = NoDsl
    /\ DslIdle
    /\ GatewayIdle
    /\ DiscoveryIdle
    /\ ProfilesIdle
    /\ FlattenerIdle

\* the body of fetchData past its guard, up to the await: the search is issued
\* (at: the generation of filters and config on screen when it is issued)
CallFetchData(fetch, by) ==
    IF fetch.blocked
    THEN UNCHANGED <<issued, inflight, loading, appError>>
    ELSE /\ Len(issued) < MaxSearches
         /\ issued' = Append(issued, [id |-> Len(issued) + 1, gen |-> fetch.gen,
                                      criteria |-> fetch.criteria,
                                      from |-> fetch.from, demo |-> fetch.demo,
                                      by |-> by, at |-> gen])
         /\ inflight' = inflight \cup {Len(issued) + 1}
         /\ loading' = TRUE
         /\ appError' = FALSE

\* the handlers that replace filters: the query input, addFieldFilter,
\* removeFieldFilter, toggleGeoFilter, the geo inputs (field, latitude,
\* longitude, radius, unit) and the pager or the scroll observer
FilterEdits == {"query", "addFieldFilter", "removeFieldFilter", "toggleGeoFilter",
                "geoInput"}
FilterChanges == FilterEdits \cup {"page"}

\* the handlers that write from: 0 with their edit
ResetsFrom(version, kind) ==
    \/ kind \in {"query", "addFieldFilter", "removeFieldFilter"}
    \/ kind = "toggleGeoFilter" /\ version = "scroll"

\* handleSaveConfig of the infinite-scroll App: setFilters(prev => ({ ...prev, from: 0 }))
SaveResetsFrom(version) == version = "scroll"

\* setFilters from one of the handlers; the next page is asked for only with
\* data on screen and no search loading
ChangeFilters(kind) ==
    /\ gen < MaxChanges
    /\ kind = "page" => appData # NoAppData /\ ~loading
    /\ gen' = gen + 1
    /\ criteria' = (IF kind \in FilterEdits THEN criteria + 1 ELSE criteria)
    /\ appFrom' = (IF kind = "page" THEN appFrom + PageSize
                   ELSE IF ResetsFrom(appVersion, kind) THEN 0 ELSE appFrom)
    /\ replaced' = replaced \cup {t.gen : t \in timers}
    /\ timers' = Cleanup(timers)
                   \cup {FetchData(gen', criteria', appFrom', appConfig,
                                   loadingIndices, indicesError)}
    /\ UNCHANGED <<appVersion, appConfig, loadingIndices, indicesError, indexLoads,
                   indices, loadEnded, issued, inflight, completed, appData, prevData, lastWrite,
                   appError, loading, appRest>>

\* what handleSaveConfig writes besides config, and the debounce effect that
\* follows: setData(null), from: 0 in the infinite-scroll App, a new timer
SaveConfigEffects ==
    /\ gen < MaxChanges
    /\ gen' = gen + 1
    /\ appData' = NoAppData
    /\ lastWrite' = 0
    /\ criteria' = criteria + 1
    /\ appFrom' = (IF SaveResetsFrom(appVersion) THEN 0 ELSE appFrom)
    /\ replaced' = replaced \cup {t.gen : t \in timers}
    /\ timers' = Cleanup(timers)
                   \cup {FetchData(gen', criteria', appFrom', appConfig',
                                   loadingIndices', indicesError')}

\* handleSaveConfig from the settings dialog and the effects that follow the
\* new config: the index list is loaded again (demo mode answers at once) and
\* the auto-select effect runs on the new list
handleSaveConfig(newConfig) ==
    /\ indices' = (IF newConfig.useDemoMode THEN DemoIndices ELSE <<>>)
    /\ appConfig' = AutoSelect(newConfig, indices')
    /\ indicesError' = FALSE
    /\ loadingIndices' = (~newConfig.useDemoMode /\ newConfig.hasNodes)
    /\ indexLoads' = (IF ~newConfig.useDemoMode /\ newConfig.hasNodes
                      THEN indexLoads + 1 ELSE indexLoads)
    /\ loadEnded' = (IF newConfig.useDemoMode THEN "ok" ELSE "none")
    /\ SaveConfigEffects
    /\ UNCHANGED <<appVersion, issued, inflight, completed, prevData,
                   appError, loading, appRest>>

\* handleIndexChange from the index selector (the listed indices) or, with
\* no list, from the index text input
handleIndexChange(newIndex) ==
    /\ newIndex # appConfig.index
    /\ indices # <<>> => \E i \in DOMAIN indices : indices[i] = newIndex
    /\ appConfig' = AutoSelect([appConfig EXCEPT !.index = newIndex], indices)
    /\ UNCHANGED <<appVersion, loadingIndices, indicesError, indexLoads, indices,
                   loadEnded, issued, inflight, completed, prevData, appError,
                   loading, appRest>>
    /\ SaveConfigEffects

\* getIndices settles with a list or an error; the auto-select effect runs on
\* the new list and saves a config when it picks another index
IndicesLoaded(ok, list) ==
    /\ indexLoads > 0
    /\ indexLoads' = indexLoads - 1
    /\ loadingIndices' = FALSE
    /\ indicesError' = (IF ok THEN indicesError ELSE TRUE)
    /\ indices' = (IF ok THEN list ELSE indices)
    /\ loadEnded' = (IF ok THEN "ok" ELSE "failed")
    /\ appConfig' = AutoSelect(appConfig, indices')
    /\ IF appConfig' # appConfig
       THEN SaveConfigEffects
       ELSE /\ UNCHANGED <<gen, criteria, appFrom, appData, lastWrite, replaced>>
            /\ IF loadingIndices' # loadingIndices \/ indicesError' # indicesError
               THEN timers' = Cleanup(timers)
                                \cup {FetchData(gen, criteria, appFrom, appConfig,
                                                FALSE, indicesError')}
               ELSE UNCHANGED timers
    /\ UNCHANGED <<appVersion, issued, inflight, completed, prevData, appError,
                   loading, appRest>>

\* the 400 ms timer of the debounce effect expires
TimerFires(t) ==
    /\ t \in timers
    /\ timers' = timers \ {t}
    /\ CallFetchData(t, "effect")
    /\ UNCHANGED <<appVersion, appConfig, gen, appFrom, criteria, loadingIndices,
                   indicesError, indexLoads, indices, loadEnded, completed, appData,
                   prevData, lastWrite, replaced,
                   appRest>>

\* the refresh button. Paged App: onClick={() => fetchData()}; infinite-scroll
\* App: onClick={() => { setFilters(prev => ({ ...prev, from: 0 })); fetchData(); }},
\* where fetchData is the one of the render the click happens in
RefreshClick ==
    /\ IF appVersion = "paged"
       THEN /\ ~CurrentFetchData.blocked
            /\ UNCHANGED <<gen, appFrom, timers, replaced>>
       ELSE /\ gen < MaxChanges
            /\ gen' = gen + 1
            /\ appFrom' = 0
            /\ replaced' = replaced \cup {t.gen : t \in timers}
            /\ timers' = Cleanup(timers)
                           \cup {FetchData(gen', criteria, 0, appConfig, loadingIndices,
                                           indicesError)}
    /\ CallFetchData(CurrentFetchData, "button")
    /\ UNCHANGED <<appVersion, appConfig, criteria, loadingIndices, indicesError,
                   indexLoads, indices, loadEnded, completed, appData, prevData,
                   lastWrite, appRest>>

\* the search of fetchData settles: setData or setError, then setLoading(false);
\* the demo responses come after one fixed delay, so in the order of their calls
SearchSettles(id, ok) ==
    /\ id \in inflight
    /\ issued[id].demo => ok /\ \A j \in inflight : issued[j].demo => id <= j
    /\ inflight' = inflight \ {id}
    /\ completed' = Append(completed, [id |-> id, ok |-> ok])
    /\ IF ok
       THEN /\ appData' = StoreResponse(appVersion, appData, issued[id])
            /\ prevData' = appData
            /\ lastWrite' = id
            /\ UNCHANGED appError
       ELSE /\ appError' = TRUE
            /\ UNCHANGED <<appData, prevData, lastWrite>>
    /\ loading' = FALSE
    /\ UNCHANGED <<appVersion, appConfig, gen, appFrom, criteria, loadingIndices,
                   indicesError, indexLoads, indices, loadEnded, timers, issued, replaced, appRest>>

AppNext ==
    \/ \E kind \in FilterChanges : ChangeFilters(kind)
    \/ \E newConfig \in AppConfigs : handleSaveConfig(newConfig)
    \/ \E newIndex \in IndexNames : handleIndexChange(newIndex)
    \/ \E ok \in BOOLEAN, list \in IndexLists : IndicesLoaded(ok, list)
    \/ \E t \in timers : TimerFires(t)
    \/ RefreshClick
    \/ \E id \in inflight, ok \in BOOLEAN : SearchSettles(id, ok)

SpecApp == AppInit /\ [][AppNext]_vars

----------------------------------------------------------------------------
(* Claims about the gateway                                                *)

Ended == pc \in {"exec_done", "done"}

\* the proxy's reply (or the request to it) never reached the client
ReplyLost == variant.gateway # "direct" /\ execOutcome.kind = "FetchFailed"

SentTo(n) == \E i \in DOMAIN log : log[i].ev = "send" /\ log[i].node = n
FailedAt(n) == \E i \in DOMAIN log : log[i].ev = "fail" /\ log[i].node = n
Sends == {i \in DOMAIN log : log[i].ev = "send"}
Responses == {i \in DOMAIN log : log[i].ev = "response"}
Resolutions == {i \in DOMAIN log : log[i].ev = "resolve"}
IsSigned(e) == e.auth \in {"aoss", "es"}

IsAuthFailure(o) == o.state = "error" /\ o.status \in {401, 403}

(* C1: once a response (2xx, 401/403 or any other status) has been received *)
(* from a node, no later node is contacted; when node 1 of two or more      *)
(* answers 403, the call ends with an authentication failure and node 2     *)
(* receives no request.                                                     *)
C1_NoNodeAfterResponse ==
    /\ \A i, j \in DOMAIN log :
          (i < j /\ log[i].ev = "response") => log[j].ev # "send"
    /\ (/\ Len(cfg.nodes) >= 2
        /\ \E i \in Responses : log[i].node = 1 /\ log[i].status = 403)
       => /\ ~SentTo(2)
          /\ (Ended /\ ~ReplyLost) => IsAuthFailure(execOutcome)

(* C2: over two nodes, when the request to node 1 fails at transport level  *)
(* and node 2 answers 200, the call returns node 2's parsed body and node   *)
(* 1's error is not reported.                                               *)
C2_SecondNodeAnswers ==
    (Len(cfg.nodes) = 2 /\ FailedAt(1))
    => /\ SentTo(2)
       /\ \A i \in Responses :
             (log[i].node = 2 /\ log[i].status = 200 /\ log[i].body.json /\ Ended)
             => execOutcome = Returned(BodyData(log[i].body))

\* the error names the credential failure
IsCredentialError(o) ==
    /\ o.state = "error"
    /\ \/ o.kind = "CredentialError"
       \/ \E i \in DOMAIN o.text : o.text[i] = "Credential Error"

(* C4: when the named profile cannot be loaded the call fails at once: no   *)
(* request is sent to any node and the caller receives a credential error,  *)
(* not a transport or upstream error.                                       *)
C4_CredentialFailureReported ==
    (payload.profile # "" /\ \E i \in Resolutions : log[i].auth = "throw")
    => /\ Sends = {}
       /\ (Ended /\ ~ReplyLost) => IsCredentialError(execOutcome)

(* C5: with demo mode off and an empty node list, search, getIndices and    *)
(* getMapping's request fail with the no-nodes error before any credential  *)
(* resolution and before any network request.                               *)
C5_NoNodesFailsFirst ==
    (~cfg.useDemoMode /\ cfg.nodes = <<>>)
    => /\ log = <<>>
       /\ pc \in {"idle", "exec_done", "done"}
       /\ Ended => execOutcome = Thrown("NoNodes", 0, <<>>)

C5_Witness ==
    /\ ~cfg.useDemoMode
    /\ cfg.nodes = <<>>
    /\ cfg.authType = "profile"
    /\ cfg.profile = "missing"
    /\ op = "getMapping"
    /\ pc = "done"
    /\ execOutcome.kind = "NoNodes"
    /\ log = <<>>

\* how the caller of executeRequest can classify what it got
OutcomeClass(o) ==
    IF o.state = "ok" THEN "Success"
    ELSE IF o.kind = "OpenSearchError" /\ o.text = <<"Authentication Failed">>
         THEN "AuthenticationFailed"
    ELSE IF o.kind = "OpenSearchError" THEN "UpstreamError"
    ELSE "Other"

StatusClass(st) ==
    IF st = 401 \/ st = 403 THEN "AuthenticationFailed"
    ELSE IF IsOk(st) THEN "Success"
    ELSE "UpstreamError"

\* the error text is the node's body, or the error or message member of it
CarriesBody(o, b) ==
    \/ o.text = b.raw
    \/ b.json /\ b.error # "" /\ o.text = <<b.error>>
    \/ b.json /\ b.message # "" /\ o.text = <<b.message>>

(* C6: on the signed path every response of the node is classified by its   *)
(* status alone, AuthenticationFailed for 401/403, UpstreamError for any    *)
(* other non-2xx and success for 2xx, and the error outcomes carry the      *)
(* node's status and body to the caller of executeRequest.                  *)
C6_ResponseClassified ==
    \A i \in Responses :
        (/\ variant = [gateway |-> "proxy", server |-> "sigv4"]
         /\ IsSigned(LastSend)
         /\ Ended /\ ~ReplyLost)
        => /\ OutcomeClass(execOutcome) = StatusClass(log[i].status)
           /\ execOutcome.state = "error"
              => /\ execOutcome.status = log[i].status
                 /\ CarriesBody(execOutcome, log[i].body)

EmptyStaticKey ==
    /\ variant.gateway = "proxy"
    /\ ~cfg.useDemoMode
    /\ cfg.authType = "manual"
    /\ cfg.accessKey = ""

(* C7: in static (manual key) mode with an empty access key, credential     *)
(* resolution fails with a credential error and no request, signed or       *)
(* unsigned, is sent to the node.                                           *)
C7_EmptyKeyIsCredentialError ==
    EmptyStaticKey
    => /\ Sends = {}
       /\ \A i \in Resolutions : log[i].auth = "throw"

(* C7, amended: in static mode with an empty access key only the            *)
(* OpenSearch-client proxy fails the resolution ("No credentials provided") *)
(* and sends nothing; the SigV4 proxy resolves to no credentials without an *)
(* error and sends one unsigned request to the node.                        *)
C7_EmptyKeyByProxy ==
    EmptyStaticKey
    => IF variant.server = "osclient"
       THEN /\ Sends = {}
            /\ \A i \in Resolutions : log[i].auth = "throw"
            /\ pc = "proxy_replied" => proxyReply.data.message = "No credentials provided"
       ELSE /\ \A i \in Resolutions : log[i].auth = "none"
            /\ \A i \in Sends : log[i].auth = "none"
            /\ Cardinality(Sends) = Cardinality(Resolutions)
            /\ Cardinality(Sends) <= 1

C7_Witness ==
    /\ EmptyStaticKey
    /\ variant.server = "sigv4"
    /\ Cardinality(Sends) = 1
    /\ \A i \in Sends : log[i].auth = "none"
    /\ pc = "done"
    /\ result.state = "ok"

NoCredentialsGiven ==
    /\ variant.gateway = "proxy"
    /\ payload.url # <<>>
    /\ payload.profile = ""
    /\ payload.accessKey = ""

\* the proxy has run its credential resolution
ProxyHandled == Resolutions # {}

SignedIffResolved ==
    \A i \in Sends :
        IsSigned(log[i]) <=> (\E j \in Resolutions : j < i /\ log[j].auth = "creds")

ActiveBranchResolution(c) ==
    IF c.authType = "profile"
    THEN (IF c.profile = "" THEN "none"
          ELSE IF c.profile \in ProfileStore THEN "creds" ELSE "throw")
    ELSE (IF c.accessKey # "" THEN "creds" ELSE "none")

(* C15: exactly one credential branch counts per auth mode: in profile mode *)
(* the request handed to the proxy carries no static keys and they do not   *)
(* change how it is signed, in static mode it carries no profile name and a *)
(* leftover profile name changes nothing; no request carries both.          *)
C15_OneCredentialBranch ==
    (variant.gateway # "direct" /\ payload # NoPayload)
    => /\ ~(payload.profile # "" /\ payload.hasCredentials)
       /\ cfg.authType = "profile" => ~payload.hasCredentials
       /\ cfg.authType = "manual" => payload.profile = ""
       /\ variant.server = "sigv4"
          => \A i \in Resolutions : log[i].auth = ActiveBranchResolution(cfg)

----------------------------------------------------------------------------
(* C9: classify(url) is the serverless name exactly when the hostname ends *)
(* in aoss.amazonaws.com, and the managed-cluster name for every other     *)
(* URL, also when the suffix occurs only in the path or the query string.  *)
C9_ServiceIffHostSuffix ==
    service # "none" =>
        /\ service \in {"aoss", "es"}
        /\ (service = "aoss") <=> EndsWith(url.host, AossSuffix)

----------------------------------------------------------------------------
(* Claims about the compiler                                               *)

Compiled == dsl.sort # <<>>

CountKind(cs, kinds) == Cardinality({i \in DOMAIN cs : cs[i].kind \in kinds})
NumOps(ffs, ops) == Cardinality({i \in DOMAIN ffs : ffs[i].operator \in ops})

(* C3: for every filter state the compiled must list is non-empty: it holds *)
(* exactly one text clause, multi_match or match_all, and the match_all     *)
(* clause whenever the text query is empty or only whitespace.              *)
C3_MustNeverEmpty ==
    Compiled =>
        /\ Len(dsl.must) >= 1
        /\ CountKind(dsl.must, {"multi_match", "match_all"}) = 1
        /\ Trim(filters.query) = <<>> => CountKind(dsl.must, {"match_all"}) = 1

C3_Witness ==
    /\ Compiled
    /\ filters.query = <<" ">>
    /\ filters.fieldFilters = <<>>
    /\ dsl.must = << [kind |-> "match_all"] >>

(* C10: each field filter contributes exactly one clause to exactly one     *)
(* bucket, chosen by its operator alone: eq and contains to must, neq to    *)
(* must_not, the ranges (keyed by the operator name) and exists to filter;  *)
(* so |must| = 1 + #eq + #contains, |must_not| = #neq and                   *)
(* |filter| = #range + #exists + (1 if geo is enabled).                     *)
C10_OneClausePerFilter ==
    Compiled =>
        LET ffs == filters.fieldFilters IN
        /\ Len(dsl.must) = 1 + NumOps(ffs, {"eq"}) + NumOps(ffs, {"contains"})
        /\ Len(dsl.must_not) = NumOps(ffs, {"neq"})
        /\ Len(dsl.filter) = NumOps(ffs, RangeOps) + NumOps(ffs, {"exists"})
                                + (IF filters.geo.enabled THEN 1 ELSE 0)
        /\ CountKind(dsl.must, {"match_phrase"}) = NumOps(ffs, {"eq"})
        /\ CountKind(dsl.must, {"query_string"}) = NumOps(ffs, {"contains"})
        /\ CountKind(dsl.must_not, {"match_phrase"}) = NumOps(ffs, {"neq"})
        /\ CountKind(dsl.filter, {"exists"}) = NumOps(ffs, {"exists"})
        /\ CountKind(dsl.filter, {"geo_distance"}) = (IF filters.geo.enabled THEN 1 ELSE 0)
        /\ \A o \in RangeOps :
              Cardinality({i \in DOMAIN dsl.filter :
                              /\ dsl.filter[i].kind = "range"
                              /\ dsl.filter[i].op = o}) = NumOps(ffs, {o})

C10_Witness ==
    /\ Compiled
    /\ filters.query = <<>>
    /\ ~filters.geo.enabled
    /\ filters.fieldFilters =
          << [field |-> "status", operator |-> "eq", value |-> <<"ERROR">>] >>
    /\ dsl.must = << [kind |-> "match_all"],
                     [kind |-> "match_phrase", field |-> "status",
                      val |-> StrLit(<<"ERROR">>)] >>
    /\ dsl.filter = <<>>
    /\ dsl.must_not = <<>>

\* the clauses the field filters contributed, bucket by bucket
FieldMust == Tail(dsl.must)
FieldFilter == IF filters.geo.enabled THEN Tail(dsl.filter) ELSE dsl.filter
FieldMustNot == dsl.must_not
FieldAll == FieldMust \o FieldFilter \o FieldMustNot

\* the value is written as a number: digits only, blanks around them allowed
NumericLooking(v) ==
    /\ Trim(v) # <<>>
    /\ \A i \in DOMAIN Trim(v) : Trim(v)[i] \in Digits

AllOperator(o) ==
    /\ filters.fieldFilters # <<>>
    /\ \A i \in DOMAIN filters.fieldFilters : filters.fieldFilters[i].operator = o

(* C11: for field filters with operator eq (or neq), the clause type and    *)
(* the bucket of the compiled clause are the same whether the value is      *)
(* numeric-looking or not; only the literal differs, a number for a         *)
(* numeric-looking value and the unchanged string otherwise.                *)
C11_ClauseTypeIgnoresValue ==
    \A o \in {"eq", "neq"} :
        (Compiled /\ AllOperator(o))
        => /\ Len(FieldAll) = Len(filters.fieldFilters)
           /\ Cardinality({b \in {FieldMust, FieldFilter, FieldMustNot} : b # <<>>}) = 1
           /\ \A i, j \in DOMAIN FieldAll : FieldAll[i].kind = FieldAll[j].kind
           /\ \A i \in DOMAIN FieldAll :
                 /\ FieldAll[i].field = filters.fieldFilters[i].field
                 /\ FieldAll[i].val.type =
                        IF NumericLooking(filters.fieldFilters[i].value)
                        THEN "number" ELSE "string"

C11_Witness ==
    /\ Compiled
    /\ AllOperator("eq")
    /\ Len(FieldAll) = 2
    /\ FieldAll[1].kind = FieldAll[2].kind
    /\ FieldAll[1].val = StrLit(<<"ERROR">>)
    /\ FieldAll[2].val = NumLit(42)

\* the one field filter of the state and the literal its clause carries
OnlyFilter == filters.fieldFilters[1]
CarriesLiteral == OnlyFilter.operator \in {"eq", "neq"} \cup RangeOps

(* C12: a field filter value is compiled to a numeric literal if and only   *)
(* if the whole string is a number; a string with a numeric prefix followed *)
(* by other characters ("42abc") and the empty or whitespace-only string    *)
(* are compiled unchanged as strings.                                       *)
C12_NumberIffWholeString ==
    (Compiled /\ Len(filters.fieldFilters) = 1 /\ CarriesLiteral)
    => LET v == OnlyFilter.value
           lit == FieldAll[1].val
       IN /\ lit.type = "number" <=> NumericLooking(v)
          /\ lit.type = "string" => lit.str = v
          /\ v = <<"4", "2">> => lit = NumLit(42)
          /\ (Trim(v) = <<>> \/ v = <<"4", "2", "abc">>) => lit = StrLit(v)

C12_Witness ==
    /\ Compiled
    /\ Len(filters.fieldFilters) = 1
    /\ OnlyFilter.operator = "eq"
    /\ OnlyFilter.value = <<"4", "2", "abc">>
    /\ FieldAll[1].val = StrLit(<<"4", "2", "abc">>)

(* C13: the compiled query's from and size are exactly the filter state's   *)
(* from and size, whatever the query, the geo filter and the field filters  *)
(* are; the offset is never clamped or rounded.                             *)
C13_PaginationCopied ==
    Compiled => /\ dsl.from = filters.from
                /\ dsl.size = filters.size

C13_Witness ==
    /\ Compiled
    /\ filters.from = 10000
    /\ filters.size = 50
    /\ filters.geo.enabled
    /\ filters.fieldFilters # <<>>
    /\ filters.query # <<>>
    /\ dsl.from = 10000
    /\ dsl.size = 50

----------------------------------------------------------------------------
(* Claims about discovery and the settings dialog                          *)

\* the listing succeeded and holds no summaries
ListedNone ==
    \/ awsOutcome.kind = "bare"
    \/ awsOutcome.kind = "list" /\ awsOutcome.ids = <<>>
ListedSome == awsOutcome.kind = "list" /\ awsOutcome.ids # <<>>
\* the request could not be made or failed
DiscoveryFailed ==
    awsOutcome.kind \in {"credfail", "nocreds", "transport", "status", "text",
                         "unreachable", "lost"}
ServerFailed ==
    awsOutcome.kind \in {"credfail", "nocreds", "transport", "status", "text"}

(* C14: discovery reports "zero collections" and "the request could not be  *)
(* made or failed" as different results: a successful listing without       *)
(* summaries gives a success reply with an empty collection list, a         *)
(* credential, transport or upstream failure never gives a success reply,   *)
(* and the dialog's state after the two outcomes differs.                   *)
C14_EmptyIsNotFailure ==
    /\ (discPc \in {"replied", "done"} /\ ListedNone)
       => discReply = DiscReply(200, TRUE, <<>>, <<>>)
    /\ (discPc \in {"replied", "done"} /\ ServerFailed)
       => /\ ~IsOk(discReply.http)
          /\ ~discReply.hasCollections
    /\ discPc = "done"
       => /\ ~discovering
          /\ ListedNone => /\ discoveryError = NoneFoundText
                           /\ discoveredCollections = <<>>
          /\ DiscoveryFailed => /\ discoveryError \notin {NoText, NoneFoundText}
                                /\ discoveredCollections = <<>>
          /\ ListedSome => /\ discoveryError = NoText
                           /\ discoveredCollections # <<>>

C14_Witness ==
    /\ discPc = "done"
    /\ awsOutcome = AwsOutcome("list", 200, <<>>, <<>>)
    /\ discReply = DiscReply(200, TRUE, <<>>, <<>>)
    /\ discoveryError = NoneFoundText
    /\ formData.authType = "profile"

StoreMissing ==
    /\ profStore.credentials.state \in {"absent", "unreadable"}
    /\ profStore.config.state \in {"absent", "unreadable"}

(* C16: listing the named profiles never fails: when the credential store   *)
(* is absent or unreadable the listing answers with an empty profile list   *)
(* as a normal reply, and the server goes on answering later listings.      *)
C16_ProfileListingNeverFails ==
    /\ profServed > 0
       => /\ profReply.http = 200
          /\ StoreMissing => profReply.profiles = <<>>
    /\ (profServed > 0 /\ profServed < MaxListings) => ENABLED ListProfiles

C16_Witness ==
    /\ profServed = 2
    /\ profStore.version = "ini"
    /\ profStore.credentials = UnreadableFile
    /\ profStore.config = AbsentFile
    /\ profReply = ProfReply(200, <<>>)

----------------------------------------------------------------------------
(* Claims about the mapping flattener                                      *)

Flattened == fields # NotFlattened

RECURSIVE CountLeaves(_)
CountLeaves(props) ==
    IF props = <<>> THEN 0
    ELSE (IF Head(props).container THEN CountLeaves(Head(props).properties) ELSE 1)
            + CountLeaves(Tail(props))

\* the names of a path and its dots
PathNames(path) == [i \in 1..((Len(path) + 1) \div 2) |-> path[2 * i - 1]]
Dots(path) == Cardinality({i \in DOMAIN path : path[i] = "."})
WellJoined(path) ==
    /\ Len(path) % 2 = 1
    /\ \A i \in DOMAIN path : (path[i] = ".") <=> (i % 2 = 0)

\* the position of the entry called n among its siblings, 0 when there is none
IndexOf(props, n) ==
    IF \E i \in DOMAIN props : props[i].name = n
    THEN CHOOSE i \in DOMAIN props : props[i].name = n
    ELSE 0

\* the positions walked from the root along the names, <<0>> when the names
\* do not end at a leaf
RECURSIVE Walk(_, _)
Walk(props, names) ==
    LET i == IndexOf(props, Head(names)) IN
    IF i = 0 THEN <<0>>
    ELSE IF Len(names) = 1
         THEN (IF props[i].container THEN <<0>> ELSE <<i>>)
    ELSE IF ~props[i].container THEN <<0>>
    ELSE LET rest == Walk(props[i].properties, Tail(names)) IN
         IF rest = <<0>> THEN <<0>> ELSE <<i>> \o rest

\* document order of two walks
RECURSIVE Before(_, _)
Before(w1, w2) ==
    /\ w1 # <<>> /\ w2 # <<>>
    /\ \/ Head(w1) < Head(w2)
       \/ Head(w1) = Head(w2) /\ Before(Tail(w1), Tail(w2))

(* C17: for every tree-shaped schema flattenMapping returns exactly one     *)
(* definition per leaf and none for containers, in depth-first source       *)
(* order; a path is the dot-joined names of the ancestors and the leaf, so  *)
(* a leaf at depth N has N-1 dots and a depth-1 leaf has none.              *)
C17_OneDefinitionPerLeaf ==
    Flattened
    => /\ Len(fields) = CountLeaves(schema)
       /\ \A i \in DOMAIN fields :
             /\ WellJoined(fields[i].path)
             /\ Walk(schema, PathNames(fields[i].path)) # <<0>>
             /\ Dots(fields[i].path) = Len(Walk(schema, PathNames(fields[i].path))) - 1
       /\ \A i, j \in DOMAIN fields :
             i < j => Before(Walk(schema, PathNames(fields[i].path)),
                             Walk(schema, PathNames(fields[j].path)))

C17_Witness ==
    /\ Flattened
    /\ Len(schema) = 2
    /\ Len(fields) = 2
    /\ fields[1].path = <<"b", ".", "a", ".", "b">>
    /\ fields[2].path = <<"a">>

\* the attempt on node n ended before event j, and how
EndedBefore(n, j, how) ==
    \E i \in DOMAIN log : i < j /\ log[i].node = n /\ log[i].ev = how

\* the call failed because a node could not be reached
TransportFailure ==
    /\ Ended
    /\ execOutcome.state = "error"
    /\ IF variant.gateway = "direct"
       THEN execOutcome.kind = "FetchFailed"
       ELSE ~ReplyLost /\ \E n \in 1..Len(NodesOf(cfg)) : FailedAt(n)

\* node n + 1 is contacted only after node n failed at transport level
C20_NextOnlyAfterTransportFailure ==
    \A j \in Sends :
        log[j].node > 1 =>
            /\ EndedBefore(log[j].node - 1, j, "fail")
            /\ ~EndedBefore(log[j].node - 1, j, "response")

\* no node is contacted twice, and a node is contacted only when the attempt
\* on the node contacted before it has ended
C20_OneAtATime ==
    \A i, j \in Sends :
        i < j => /\ log[i].node # log[j].node
                 /\ \/ EndedBefore(log[i].node, j, "fail")
                    \/ EndedBefore(log[i].node, j, "response")

\* a transport failure of the call comes after every node was tried and is
\* the failure of the last node
C20_FailsAfterAllNodes ==
    TransportFailure =>
        /\ \A n \in 1..Len(NodesOf(cfg)) : SentTo(n)
        /\ FailedAt(Len(NodesOf(cfg)))

(* C20: failover visits the nodes one at a time in list order: node i+1 is   *)
(* contacted only after the attempt on node i ended in a transport failure, *)
(* no node is contacted twice in one call, two node requests of one call    *)
(* are never in flight together, and the call fails with a transport error  *)
(* only after every node has been tried, with the last node's error.        *)
C20_SequentialFailover ==
    /\ C20_NextOnlyAfterTransportFailure
    /\ C20_OneAtATime
    /\ C20_FailsAfterAllNodes

\* { text }: the object that wraps the raw text of a body
TextWrapper(body) == Data("", "", <<>>, <<"{", "text", ":">> \o body.raw \o <<"}">>)

\* the responses of a node with a 2xx status and a body that is not JSON
PlainTextResponses ==
    {i \in Responses : IsOk(log[i].status) /\ ~log[i].body.json}

(* C21: when a node answers 2xx with a body that is not valid JSON, the     *)
(* SigV4 proxy replies with a success wrapping the raw text of the body, on *)
(* the signed and on the unsigned path: not a failure, not an empty object. *)
C21_RawTextWrapped ==
    \A i \in PlainTextResponses :
        variant.server = "sigv4" =>
            proxyReply = Reply(200, log[i].status, TextWrapper(log[i].body))

\* the positions in fieldFilters of the filters that go to one bucket
FiltersOf(bucket) ==
    {k \in DOMAIN filters.fieldFilters :
        FieldClause(filters.fieldFilters[k]).bucket = bucket}

\* the clauses of one bucket are those of its filters, in the filters' order
InFilterOrder(clauses, bucket) ==
    /\ Len(clauses) = Cardinality(FiltersOf(bucket))
    /\ \A k \in FiltersOf(bucket) :
          clauses[Cardinality({j \in FiltersOf(bucket) : j <= k})]
              = FieldClause(filters.fieldFilters[k]).clause

(* C22: in must the text clause is first, in filter the geo clause, if       *)
(* present, is first, and within each of must, filter and must_not the      *)
(* clauses of the field filters keep the relative order of fieldFilters.    *)
C22_ClauseOrderIsInputOrder ==
    Compiled =>
        /\ dsl.must # <<>> /\ dsl.must[1].kind \in {"multi_match", "match_all"}
        /\ filters.geo.enabled =>
              dsl.filter # <<>> /\ dsl.filter[1].kind = "geo_distance"
        /\ InFilterOrder(FieldMust, "must")
        /\ InFilterOrder(FieldFilter, "filter")
        /\ InFilterOrder(FieldMustNot, "must_not")

\* C22 witness: geo on and two range filters, on ERROR then on 42: filter is
\* the geo clause, then the range on ERROR, then the range on 42.
C22_Witness ==
    /\ Compiled
    /\ filters.geo.enabled
    /\ filters.fieldFilters =
          << [field |-> "status", operator |-> "gt", value |-> <<"ERROR">>],
             [field |-> "status", operator |-> "gt", value |-> <<"4", "2">>] >>
    /\ Len(dsl.filter) = 3
    /\ dsl.filter[1].kind = "geo_distance"
    /\ dsl.filter[2].val = StrLit(<<"ERROR">>)
    /\ dsl.filter[3].val = NumLit(42)

\* the geo radius clauses of a bucket
GeoIn(bucket) == {i \in DOMAIN bucket : bucket[i].kind = "geo_distance"}

\* exactly one geo clause, in filter, if and only if the geo filter is enabled
OneGeoClauseIffEnabled ==
    /\ GeoIn(dsl.must) = {}
    /\ GeoIn(dsl.must_not) = {}
    /\ GeoIn(dsl.filter) = (IF filters.geo.enabled THEN {1} ELSE {})

\* `${filters.geo.radius}${filters.geo.unit}`
RadiusThenUnit == NumberToString(filters.geo.radius) \o <<filters.geo.unit>>

\* C23 (as stated): one geo clause, in filter, iff the geo filter is enabled;
\* it is keyed by the geo field of the filter state, when one is set there,
\* and its distance is the radius followed by the unit.
C23_GeoKeyedByFilterState ==
    Compiled =>
        /\ OneGeoClauseIffEnabled
        /\ filters.geo.enabled =>
              /\ dsl.filter[1].distance = RadiusThenUnit
              /\ filters.geo.geoField # "" => dsl.filter[1].field = filters.geo.geoField

\* C23 (amended): one geo clause, in filter, iff the geo filter is enabled;
\* its distance is the radius followed by the unit; it is keyed by the geo
\* field of the filter state in the current compiler and by the geo field of
\* the configuration in the earlier one, and by 'location' when that is empty.
C23_GeoKeyedByVersion ==
    Compiled =>
        /\ OneGeoClauseIffEnabled
        /\ filters.geo.enabled =>
              /\ dsl.filter[1].distance = RadiusThenUnit
              /\ LET configured == IF dslVersion = "current"
                                   THEN filters.geo.geoField
                                   ELSE dslConfig.geoField
                 IN dsl.filter[1].field
                        = (IF configured # "" THEN configured ELSE "location")

\* C23 witness: the earlier compiler, the filter state names the field geo,
\* the configuration names none: the clause is keyed by location, 50mi.
C23_Witness ==
    /\ Compiled
    /\ dslVersion = "earlier"
    /\ filters.geo.enabled
    /\ filters.geo.geoField = "geo"
    /\ filters.geo.unit = "mi"
    /\ dslConfig.geoField = ""
    /\ dsl.filter[1].field = "location"
    /\ dsl.filter[1].distance = NumberToString(50) \o <<"mi">>

----------------------------------------------------------------------------
(* Claims about the App                                                    *)

\* the search whose response setData stored last
LastStored == issued[lastWrite]

\* search b was issued after search a, and while a was still in flight: the
\* response of b came first
Overtaken(a, b) ==
    /\ a < b
    /\ \E i, j \in 1..Len(completed) :
         /\ i < j
         /\ completed[i] = [id |-> b, ok |-> TRUE]
         /\ completed[j] = [id |-> a, ok |-> TRUE]

EffectSent(g) ==
    {i \in 1..Len(issued) : issued[i].by = "effect" /\ issued[i].gen = g}

\* changes have stopped: no timer is armed and no index list is awaited
Settled == timers = {} /\ indexLoads = 0

\* every search goes out for the filters and config on screen at that moment
SentForCurrent ==
    \A i \in 1..Len(issued) : issued[i].gen = issued[i].at

PageAt(i) == issued[appData.hits[i]]

\* C24: in the infinite-scroll App the accumulated hit list holds each result
\* page at most once (no two of its pages were fetched for the same filter
\* state) and the loaded hits never exceed from + size of the current filters.
C24_EachPageOnce ==
    appVersion = "scroll" =>
        /\ \A i, j \in DOMAIN appData.hits :
              i # j => PageAt(i).gen # PageAt(j).gen
        /\ Len(appData.hits) * PageSize <= appFrom + PageSize

\* the accumulated hits were all fetched for the same criteria
OneCriteriaInHits ==
    \A i, j \in DOMAIN appData.hits : PageAt(i).criteria = PageAt(j).criteria

\* C25: every step that changes which documents match (the query, a field
\* filter, the geo filter or one of its inputs, a saved configuration) sets
\* from to 0, and hits fetched for new criteria are never appended to hits
\* of the old criteria.
C25_CriteriaChangeResetsFrom ==
    /\ [][criteria' # criteria => appFrom' = 0]_vars
    /\ [](appVersion = "scroll" => OneCriteriaInHits)

\* C26: loading is true in every state in which a search issued by fetchData
\* is in flight and false when none is, also with two searches in flight.
C26_LoadingIffInFlight ==
    loading = (inflight # {})

\* a step in which a search of the live mode is issued
LiveSearchIssued ==
    /\ Len(issued') = Len(issued) + 1
    /\ ~issued'[Len(issued')].demo

\* no live search is sent while the index list is marked as loading or after
\* the load that settled last failed
C27_NoSearchWhileLoading ==
    [][LiveSearchIssued => ~loadingIndices /\ ~indicesError /\ loadEnded # "failed"]_vars

\* in live mode, when the index list has been loaded and nothing is pending,
\* the search for the current filters has been sent
C27_SearchAfterLoad ==
    (Settled /\ ~appConfig.useDemoMode /\ loadEnded = "ok") => EffectSent(gen) # {}

\* in demo mode the guard of fetchData never returns early
C27_DemoNeverBlocked ==
    /\ \A t \in timers : t.demo => ~t.blocked
    /\ appConfig.useDemoMode => ~CurrentFetchData.blocked

\* C27: in live mode no search is sent while the index list is being loaded
\* or after its last load failed, each successful load of the index list is
\* followed by a search for the current filter state, and in demo mode the
\* gate never blocks a search.
C27_SearchGatedByIndexList ==
    /\ C27_NoSearchWhileLoading
    /\ []C27_SearchAfterLoad
    /\ []C27_DemoNeverBlocked

\* the index list holds the configured index
IndexListed(config, list) == \E i \in DOMAIN list : list[i] = config.index

\* a step in which a getIndices call settles
IndexLoadSettles == indexLoads' = indexLoads - 1

\* C29: index auto-selection reaches a fixed point. In every state the effect
\* has nothing left to change, and a non-empty list holds the configured
\* index; when a load settles, a configured index missing from the new
\* non-empty list becomes the first listed index, a configured index that is
\* listed stays, and an empty list changes nothing.
C29_AutoSelectFixedPoint ==
    /\ [](AutoSelect(appConfig, indices) = appConfig)
    /\ [](indices # <<>> => IndexListed(appConfig, indices))
    /\ [][IndexLoadSettles =>
            appConfig' = (IF indices' = <<>> \/ IndexListed(appConfig, indices')
                          THEN appConfig
                          ELSE [appConfig EXCEPT !.index = indices'[1]])]_vars

\* C29 witness: after a configuration was saved the list is the demo list and
\* the configured index, which no input names, is its first index.
C29_Witness ==
    /\ gen > 0
    /\ indices = DemoIndices
    /\ appConfig.index = "demo-index"
    /\ AutoSelect(appConfig, indices) = appConfig

----------------------------------------------------------------------------
(* Claims about the service methods around the request                     *)

(* C28: with useDemoMode true, search, getIndices and getMapping complete   *)
(* from mock data without calling executeRequest: nothing is sent, no       *)
(* credential is resolved, no request outcome exists, and the call ends     *)
(* with the mock data, whatever the node list and the credentials are.      *)
C28_DemoNeverRequests ==
    cfg.useDemoMode
    => /\ log = <<>>
       /\ payload = NoPayload
       /\ proxyReply = NoReply
       /\ execOutcome = NoOutcome
       /\ pc \in {"idle", "done"}
       /\ pc = "done" => result = Returned(MockData)

\* C28 witness: a demo call with no nodes and a profile that does not exist
\* has ended with the mock data.
C28_Witness ==
    /\ cfg.useDemoMode
    /\ cfg.nodes = <<>>
    /\ cfg.authType = "profile"
    /\ cfg.profile = "missing"
    /\ op = "getIndices"
    /\ pc = "done"
    /\ result = Returned(MockData)

\* the live call of the current service has ended
LiveCallEnded == pc = "done" /\ ~cfg.useDemoMode /\ variant.gateway = "proxy"

(* C30: getMapping in live mode never fails. Every error of its request is  *)
(* replaced by the fixed fallback field list, returned as a success, while  *)
(* getIndices and search end with exactly the outcome of their request,     *)
(* errors included (the current service, OpenSearchService over /api/proxy).*)
C30_OnlyGetMappingSwallows ==
    LiveCallEnded
    => IF op = "getMapping"
       THEN /\ result.state = "ok"
            /\ execOutcome.state = "error" => result = Returned(FallbackFields)
       ELSE result = execOutcome

\* C30 witness: a getMapping call whose request failed upstream has returned
\* the fallback field list.
C30_Witness ==
    /\ LiveCallEnded
    /\ op = "getMapping"
    /\ execOutcome.state = "error"
    /\ execOutcome.kind # "NoNodes"
    /\ result = Returned(FallbackFields)

\* a getIndices call whose request failed has thrown the same error
C30_WitnessPropagates ==
    /\ LiveCallEnded
    /\ op = "getIndices"
    /\ execOutcome.state = "error"
    /\ result = execOutcome

============================================================================
